---- MODULE Spec2Model ----
(***************************************************************************)
(* Symmetry sectors, graded vector spaces and their fusion, after          *)
(* tenpy/linalg/symmetries/groups.py and tenpy/linalg/symmetries/spaces.py *)
(*                                                                         *)
(* A sector is a sequence of integers, a SectorArray a sequence of         *)
(* sectors.  numpy indices are 0-based; here every index, and every value  *)
(* of a permutation, is 1-based.  A slice is a pair <<start, stop>> of     *)
(* 0-based positions in the dense basis, as in the source.                 *)
(*                                                                         *)
(* A space is a record of its attributes.  Where the identity of an object *)
(* matters (copies and attribute assignments), the objects live in heap, a *)
(* sequence indexed by object id, and a space refers to its list of        *)
(* factors by the id of the list.                                          *)
(***************************************************************************)
EXTENDS Integers, Sequences, FiniteSets, TLC

VARIABLES symmetry, V, W, p, q, op, heap

vars == <<symmetry, V, W, p, q, op, heap>>

(***************************************************************************)
(* Bounds of the model.                                                    *)
(***************************************************************************)
MaxMult == 2
\* the charges of the sectors handed to a symmetry lie in -MaxCharge..MaxCharge
MaxCharge == 2
\* the groups Z_N handed sectors have 1 <= N <= MaxN
MaxN == 3

(***************************************************************************)
(* Generic helpers.                                                        *)
(***************************************************************************)
Range(s) == {s[i] : i \in 1..Len(s)}

RECURSIVE SumSeq(_)
SumSeq(s) == IF s = <<>> THEN 0 ELSE Head(s) + SumSeq(Tail(s))

RECURSIVE Concat(_)
Concat(ss) == IF ss = <<>> THEN <<>> ELSE Head(ss) \o Concat(Tail(ss))

Abs(n) == IF n < 0 THEN -n ELSE n

No == [some |-> FALSE]
Some(x) == [some |-> TRUE, val |-> x]

(***************************************************************************)
(* groups.py: the symmetries.  A symmetry is a record; a ProductSymmetry   *)
(* lists its factors, which are never ProductSymmetry themselves.          *)
(***************************************************************************)
NoSymmetry == [kind |-> "NoSymmetry", N |-> 1, descriptive_name |-> No, factors |-> <<>>]
U1Symmetry(name) == [kind |-> "U1Symmetry", N |-> 0, descriptive_name |-> name, factors |-> <<>>]
ZNSymmetry(N, name) == [kind |-> "ZNSymmetry", N |-> N, descriptive_name |-> name, factors |-> <<>>]
SU2Symmetry(name) == [kind |-> "SU2Symmetry", N |-> 0, descriptive_name |-> name, factors |-> <<>>]
FermionParity == [kind |-> "FermionParity", N |-> 2, descriptive_name |-> No, factors |-> <<>>]

\* A descriptive name is None (No) or a string, kept as the sequence of its
\* pieces; the piece ", " is the separator that join puts between names.
\* ", ".join(names)
RECURSIVE join(_)
join(names) ==
    IF names = <<>> THEN <<>>
    ELSE IF Len(names) = 1 THEN names[1]
    ELSE names[1] \o <<", ">> \o join(Tail(names))

\* ProductSymmetry.__init__: the descriptive name is
\* f'[{", ".join(f.descriptive_name for f in factors)}]' when every factor
\* has a name, and None otherwise.
ProductSymmetry(factors) ==
    [kind |-> "ProductSymmetry", N |-> 0,
     descriptive_name |->
        IF \A i \in 1..Len(factors) : factors[i].descriptive_name.some
        THEN Some(<<"[">> \o join([i \in 1..Len(factors) |-> factors[i].descriptive_name.val])
                        \o <<"]">>)
        ELSE No,
     factors |-> factors]

\* the concatenation of the factors' trivial sectors dropped
trivial_sector_of_one_factor(s) == <<0>>

\* np.array([0]) for every plain symmetry; for a ProductSymmetry
\* np.concatenate([f.trivial_sector for f in factors])
trivial_sector(s) ==
    IF s.kind = "ProductSymmetry" THEN Concat([i \in 1..Len(s.factors) |-> <<0>>]) ELSE <<0>>

\* Symmetry.sector_ind_len = len(trivial_sector): 1 for every plain symmetry.
sector_ind_len(s) == IF s.kind = "ProductSymmetry" THEN Len(s.factors) ELSE 1

\* ProductSymmetry: a[sector_slices[i]:sector_slices[i + 1]]
factor_part(a, i) == <<a[i]>>

factor_is_valid_sector(f, a) ==
    /\ Len(a) = 1
    /\ CASE f.kind = "NoSymmetry" -> a[1] = 0
         [] f.kind = "U1Symmetry" -> TRUE
         [] f.kind = "ZNSymmetry" -> 0 <= a[1] /\ a[1] < f.N
         [] f.kind = "SU2Symmetry" -> a[1] >= 0
         [] f.kind = "FermionParity" -> a[1] \in {0, 1}

is_valid_sector(s, a) ==
    IF s.kind = "ProductSymmetry"
    THEN /\ Len(a) = sector_ind_len(s)
         /\ \A i \in 1..Len(s.factors) : factor_is_valid_sector(s.factors[i], factor_part(a, i))
    ELSE factor_is_valid_sector(s, a)

\* np.arange(start, stop - 2, 2): the last entry missing
arange2_short(start, stop) ==
    LET n == IF stop - 2 > start THEN (stop - 1 - start) \div 2 ELSE 0
    IN  [i \in 1..n |-> <<start + 2 * (i - 1)>>]

\* np.arange(start, stop, 2) as a sequence of one-component sectors
RECURSIVE arange2(_, _)
arange2(start, stop) ==
    IF start >= stop THEN <<>> ELSE <<(<<start>>)>> \o arange2(start + 2, stop)

\* the reduction modulo N dropped from ZNSymmetry.fusion_outcomes_broadcast
factor_fusion_outcomes_no_mod(f, a, b) ==
    CASE f.kind = "NoSymmetry" -> <<a>>
      [] f.kind = "U1Symmetry" -> <<(<<a[1] + b[1]>>)>>
      [] f.kind = "ZNSymmetry" -> <<(<<a[1] + b[1]>>)>>
      [] f.kind = "SU2Symmetry" -> arange2(Abs(a[1] - b[1]), a[1] + b[1] + 2)
      [] f.kind = "FermionParity" -> <<(<<(a[1] + b[1]) % 2>>)>>

factor_fusion_outcomes(f, a, b) ==
    CASE f.kind = "NoSymmetry" -> <<a>>
      [] f.kind = "U1Symmetry" -> <<(<<a[1] + b[1]>>)>>
      [] f.kind = "ZNSymmetry" -> <<(<<(a[1] + b[1]) % f.N>>)>>
      [] f.kind = "SU2Symmetry" -> arange2(Abs(a[1] - b[1]), a[1] + b[1] + 2)
      [] f.kind = "FermionParity" -> <<(<<(a[1] + b[1]) % 2>>)>>

\* one row only: the first outcome of every factor
combinations_of_first_rows(lists) ==
    IF \E i \in 1..Len(lists) : lists[i] = <<>> THEN <<>>
    ELSE << Concat([i \in 1..Len(lists) |-> lists[i][1]]) >>

\* all combinations of one row per list, the first list varying slowest
\* (the reshape of result[n1, n2, ..., :] in ProductSymmetry.fusion_outcomes)
RECURSIVE combinations(_)
combinations(lists) ==
    IF lists = <<>> THEN << <<>> >>
    ELSE LET rest == combinations(Tail(lists))
             first == Head(lists)
         IN  Concat([i \in 1..Len(first) |-> [j \in 1..Len(rest) |-> first[i] \o rest[j]]])

fusion_outcomes(s, a, b) ==
    IF s.kind = "ProductSymmetry"
    THEN combinations([i \in 1..Len(s.factors) |->
            factor_fusion_outcomes(s.factors[i], factor_part(a, i), factor_part(b, i))])
    ELSE factor_fusion_outcomes(s, a, b)

\* every sector taken to be its own dual
factor_dual_sector_is_self(f, a) == a

factor_dual_sector(f, a) ==
    CASE f.kind = "NoSymmetry" -> a
      [] f.kind = "U1Symmetry" -> <<-a[1]>>
      [] f.kind = "ZNSymmetry" -> <<(-a[1]) % f.N>>
      [] f.kind = "SU2Symmetry" -> a
      [] f.kind = "FermionParity" -> a

dual_sector(s, a) ==
    IF s.kind = "ProductSymmetry"
    THEN Concat([i \in 1..Len(s.factors) |-> factor_dual_sector(s.factors[i], factor_part(a, i))])
    ELSE factor_dual_sector(s, a)

\* dual_sectors of the plain symmetries, on the whole array at once:
\* sectors, -sectors or (-sectors) % N
factor_dual_sectors(f, sectors) ==
    CASE f.kind = "NoSymmetry" -> sectors
      [] f.kind = "U1Symmetry" -> [r \in 1..Len(sectors) |-> <<-sectors[r][1]>>]
      [] f.kind = "ZNSymmetry" -> [r \in 1..Len(sectors) |-> <<(-sectors[r][1]) % f.N>>]
      [] f.kind = "SU2Symmetry" -> sectors
      [] f.kind = "FermionParity" -> sectors

\* ProductSymmetry.dual_sectors: the columns of each factor are dualised by
\* that factor and the results concatenated along the last axis
dual_sectors(s, sectors) ==
    IF s.kind = "ProductSymmetry"
    THEN LET components == [i \in 1..Len(s.factors) |->
                 factor_dual_sectors(s.factors[i],
                     [r \in 1..Len(sectors) |-> factor_part(sectors[r], i)])]
         IN  [r \in 1..Len(sectors) |-> Concat([i \in 1..Len(s.factors) |-> components[i][r]])]
    ELSE factor_dual_sectors(s, sectors)

fusion_style_single(s) ==
    IF s.kind = "ProductSymmetry"
    THEN \A i \in 1..Len(s.factors) : s.factors[i].kind # "SU2Symmetry"
    ELSE s.kind # "SU2Symmetry"

factor_sector_dim(f, a) == IF f.kind = "SU2Symmetry" THEN a[1] + 1 ELSE 1

RECURSIVE ProdSeq(_)
ProdSeq(s) == IF s = <<>> THEN 1 ELSE Head(s) * ProdSeq(Tail(s))

sector_dim(s, a) ==
    IF s.kind = "ProductSymmetry"
    THEN IF fusion_style_single(s) THEN 1
         ELSE ProdSeq([i \in 1..Len(s.factors) |-> factor_sector_dim(s.factors[i], factor_part(a, i))])
    ELSE factor_sector_dim(s, a)

\* FusionStyle: single = 0, multiple_unique = 10, general = 20
factor_fusion_style(f) == IF f.kind = "SU2Symmetry" THEN 10 ELSE 0

RECURSIVE MaxSeq(_)
MaxSeq(s) ==
    IF Len(s) = 1 THEN s[1]
    ELSE LET m == MaxSeq(Tail(s)) IN IF m > Head(s) THEN m ELSE Head(s)

fusion_style(s) ==
    IF s.kind = "ProductSymmetry"
    THEN MaxSeq([i \in 1..Len(s.factors) |-> factor_fusion_style(s.factors[i])])
    ELSE factor_fusion_style(s)

\* n_symbol of the plain symmetries: AbelianGroup and FermionParity return 1
\* whatever a, b and c are; SU2Symmetry raises
factor_n_symbol(f, a, b, c) ==
    IF f.kind = "SU2Symmetry" THEN "NotImplementedError" ELSE 1

\* ProductSymmetry.n_symbol returns 1 for the fusion styles single and
\* multiple_unique, which are the only ones its factors can have
n_symbol(s, a, b, c) ==
    IF s.kind = "ProductSymmetry"
    THEN IF fusion_style(s) \in {0, 10} THEN 1
         ELSE ProdSeq([i \in 1..Len(s.factors) |->
                  factor_n_symbol(s.factors[i], factor_part(a, i), factor_part(b, i),
                                  factor_part(c, i))])
    ELSE factor_n_symbol(s, a, b, c)

\* Symmetry._n_symbol is called by _fuse_spaces and defined nowhere in the
\* sources at hand: the N-symbol of an outcome c of fusing a and b, which is 1
\* for every symmetry whose fusion has a single outcome.
_n_symbol(s, a, b, c) == 1

\* is_same_symmetry of the plain symmetries: the same class, and the same N
\* for ZNSymmetry; of ProductSymmetry: factor by factor.
factor_is_same_symmetry(f, g) ==
    /\ f.kind = g.kind
    /\ f.kind = "ZNSymmetry" => f.N = g.N

is_same_symmetry(s, t) ==
    IF s.kind = "ProductSymmetry"
    THEN /\ t.kind = "ProductSymmetry"
         /\ Len(s.factors) = Len(t.factors)
         /\ \A i \in 1..Len(s.factors) : factor_is_same_symmetry(s.factors[i], t.factors[i])
    ELSE factor_is_same_symmetry(s, t)

\* Symmetry.__eq__ used by ProductSymmetry as well
symmetry_eq_not_overridden(s, t) ==
    /\ s.descriptive_name = t.descriptive_name
    /\ is_same_symmetry(s, t)

\* Symmetry.__eq__, and ProductSymmetry.__eq__ which overrides it
symmetry_eq(s, t) ==
    IF s.kind = "ProductSymmetry"
    THEN /\ t.kind = "ProductSymmetry"
         /\ Len(s.factors) = Len(t.factors)
         /\ \A i \in 1..Len(s.factors) :
               /\ s.factors[i].descriptive_name = t.factors[i].descriptive_name
               /\ factor_is_same_symmetry(s.factors[i], t.factors[i])
    ELSE /\ s.descriptive_name = t.descriptive_name
         /\ is_same_symmetry(s, t)

(***************************************************************************)
(* numpy and tools helpers used by spaces.py.                              *)
(***************************************************************************)
\* the order np.lexsort(sectors.T) sorts rows by: the last column is the
\* primary key, the first column the least significant one
lexsort_less(a, b) ==
    \E k \in 1..Len(a) :
        /\ a[k] < b[k]
        /\ \A j \in (k + 1)..Len(a) : a[j] = b[j]

\* a sort dropped: the rows stay in the order they came in
lexsort_keeps_order(sectors) == [i \in 1..Len(sectors) |-> i]

\* np.lexsort(sectors.T): the stable permutation that sorts the rows
lexsort(sectors) ==
    LET n == Len(sectors)
        rank(i) == 1 + Cardinality({j \in 1..n :
                        \/ lexsort_less(sectors[j], sectors[i])
                        \/ (sectors[j] = sectors[i] /\ j < i)})
    IN  [r \in 1..n |-> CHOOSE i \in 1..n : rank(i) = r]

\* inv[permutation] = arange(len)
inverse_permutation(perm) ==
    [k \in 1..Len(perm) |-> CHOOSE i \in 1..Len(perm) : perm[i] = k]

\* a[idx] for an index array idx
take(a, idx) == [i \in 1..Len(idx) |-> a[idx[i]]]

arange(n) == [i \in 1..n |-> i]

(***************************************************************************)
(* spaces.py: VectorSpace.                                                 *)
(***************************************************************************)
\* the line slices[1:, 0] = slice_ends[:-1] dropped: every slice starts at 0
_calc_slices_from_zero(s, sectors, multiplicities) ==
    [i \in 1..Len(sectors) |->
        <<0, SumSeq([j \in 1..i |-> multiplicities[j] * sector_dim(s, sectors[j])])>>]

\* slices in the dense order: stop = cumsum(multiplicities * sector_dim),
\* start = the previous stop
_calc_slices(s, sectors, multiplicities) ==
    LET width(i) == multiplicities[i] * sector_dim(s, sectors[i])
        stop(i) == SumSeq([j \in 1..i |-> width(j)])
    IN  [i \in 1..Len(sectors) |-> <<IF i = 1 THEN 0 ELSE stop(i - 1), stop(i)>>]

\* VectorSpace.__init__ computing the slices of the pre-sorted entry point
\* from the sorted sectors as given, without undoing the permutation first
VectorSpaceInit_slices_of_sorted(s, sectors, multiplicities, is_real, _is_dual, _sector_perm, _sorted_slices) ==
    LET num_sectors == Len(sectors)
        mults == IF multiplicities.some THEN multiplicities.val
                 ELSE [i \in 1..num_sectors |-> 1]
        perm == IF _sector_perm.some THEN _sector_perm.val ELSE lexsort(sectors)
        slices == _calc_slices(s, sectors, mults)
    IN  [kind |-> "VectorSpace",
         symmetry |-> s,
         is_real |-> is_real,
         is_dual |-> _is_dual,
         _sector_perm |-> perm,
         _non_dual_sorted_sectors |-> IF _sector_perm.some THEN sectors ELSE take(sectors, perm),
         _sorted_multiplicities |-> IF _sector_perm.some THEN mults ELSE take(mults, perm),
         _inverse_sector_perm |-> inverse_permutation(perm),
         _sorted_slices |-> IF _sorted_slices.some THEN _sorted_slices.val ELSE take(slices, perm),
         spaces |-> <<>>]

\* VectorSpace.__init__; multiplicities, _sector_perm and _sorted_slices are
\* optional (No stands for None).  kind and spaces are "VectorSpace" and <<>>
\* here; ProductSpace.__init__ sets them for the subclass.
VectorSpaceInit(s, sectors, multiplicities, is_real, _is_dual, _sector_perm, _sorted_slices) ==
    LET num_sectors == Len(sectors)
        mults == IF multiplicities.some THEN multiplicities.val
                 ELSE [i \in 1..num_sectors |-> 1]
        perm == IF _sector_perm.some THEN _sector_perm.val ELSE lexsort(sectors)
        inv_perm == inverse_permutation(perm)
        slices == IF _sector_perm.some
                  THEN _calc_slices(s, take(sectors, inv_perm), take(mults, inv_perm))
                  ELSE _calc_slices(s, sectors, mults)
    IN  [kind |-> "VectorSpace",
         symmetry |-> s,
         is_real |-> is_real,
         is_dual |-> _is_dual,
         _sector_perm |-> perm,
         _non_dual_sorted_sectors |-> IF _sector_perm.some THEN sectors ELSE take(sectors, perm),
         _sorted_multiplicities |-> IF _sector_perm.some THEN mults ELSE take(mults, perm),
         _inverse_sector_perm |-> inv_perm,
         _sorted_slices |-> IF _sorted_slices.some THEN _sorted_slices.val ELSE take(slices, perm),
         spaces |-> <<>>]

num_sectors(x) == Len(x._non_dual_sorted_sectors)

dim(x) ==
    SumSeq([i \in 1..num_sectors(x) |->
        sector_dim(x.symmetry, x._non_dual_sorted_sectors[i]) * x._sorted_multiplicities[i]])

\* the sorted multiplicities returned without undoing the sort
multiplicities_still_sorted(x) == x._sorted_multiplicities

multiplicities(x) == take(x._sorted_multiplicities, x._inverse_sector_perm)

\* is_dual ignored when reading the sorted sectors
_sorted_sectors_ignoring_is_dual(x) == x._non_dual_sorted_sectors

_sorted_sectors(x) ==
    IF x.is_dual THEN dual_sectors(x.symmetry, x._non_dual_sorted_sectors)
    ELSE x._non_dual_sorted_sectors

\* is_dual ignored when reading the sectors
sectors_ignoring_is_dual(x) == take(x._non_dual_sorted_sectors, x._inverse_sector_perm)

sectors(x) ==
    LET res == IF x.is_dual THEN dual_sectors(x.symmetry, x._non_dual_sorted_sectors)
               ELSE x._non_dual_sorted_sectors
    IN  take(res, x._inverse_sector_perm)

\* the sorted slices returned without undoing the sort
slices_still_sorted(x) == x._sorted_slices

slices(x) == take(x._sorted_slices, x._inverse_sector_perm)

is_equal_or_dual(x, y) ==
    /\ x.is_real = y.is_real
    /\ symmetry_eq(x.symmetry, y.symmetry)
    /\ num_sectors(x) = num_sectors(y)
    /\ x._non_dual_sorted_sectors = y._non_dual_sorted_sectors
    /\ x._sorted_multiplicities = y._sorted_multiplicities
    /\ x._sector_perm = y._sector_perm

\* ProductSpace.dual without res.spaces = [s.dual for s in self.spaces]
dual_keeps_factors(x) == [x EXCEPT !.is_dual = ~x.is_dual]

\* VectorSpace.dual and ProductSpace.dual: a shallow copy with is_dual flipped;
\* a ProductSpace also replaces every factor by its dual
RECURSIVE dual(_)
dual(x) ==
    IF x.kind = "ProductSpace"
    THEN [x EXCEPT !.is_dual = ~x.is_dual,
                   !.spaces = [i \in 1..Len(x.spaces) |-> dual(x.spaces[i])]]
    ELSE [x EXCEPT !.is_dual = ~x.is_dual]

\* == without the comparison of is_dual
eq_ignoring_is_dual(x, y) ==
    /\ x.kind = y.kind
    /\ Len(x.spaces) = Len(y.spaces)
    /\ is_equal_or_dual(x, y)

\* VectorSpace.__eq__ and ProductSpace.__eq__ (x == y; whichever of the two
\* methods Python tries first, a VectorSpace and a ProductSpace are unequal)
RECURSIVE eq(_, _)
eq(x, y) ==
    IF x.kind = "ProductSpace"
    THEN /\ y.kind = "ProductSpace"
         /\ y.is_dual = x.is_dual
         /\ Len(y.spaces) = Len(x.spaces)
         /\ \A i \in 1..Len(x.spaces) : eq(x.spaces[i], y.spaces[i])
    ELSE /\ y.kind # "ProductSpace"
         /\ x.is_dual = y.is_dual
         /\ is_equal_or_dual(x, y)

\* VectorSpace.can_contract_with without its isinstance(other, ProductSpace)
\* check; a product still refuses whatever is not a product
can_contract_with_any_class(x, y) ==
    /\ x.kind = "ProductSpace" => y.kind = "ProductSpace" /\ Len(x.spaces) = Len(y.spaces)
    /\ x.is_dual # y.is_dual
    /\ is_equal_or_dual(x, y)

\* ProductSpace.can_contract_with without the comparison of the factors
can_contract_with_without_factors(x, y) ==
    IF x.kind = "ProductSpace"
    THEN /\ y.kind = "ProductSpace"
         /\ x.is_dual # y.is_dual
         /\ Len(x.spaces) = Len(y.spaces)
    ELSE /\ y.kind # "ProductSpace"
         /\ x.is_dual # y.is_dual
         /\ is_equal_or_dual(x, y)

\* VectorSpace.can_contract_with and ProductSpace.can_contract_with
RECURSIVE can_contract_with(_, _)
can_contract_with(x, y) ==
    IF x.kind = "ProductSpace"
    THEN /\ y.kind = "ProductSpace"
         /\ x.is_dual # y.is_dual
         /\ Len(x.spaces) = Len(y.spaces)
         /\ \A i \in 1..Len(x.spaces) : can_contract_with(x.spaces[i], y.spaces[i])
    ELSE /\ y.kind # "ProductSpace"
         /\ x.is_dual # y.is_dual
         /\ is_equal_or_dual(x, y)

(***************************************************************************)
(* spaces.py: ProductSpace.                                                *)
(***************************************************************************)
\* new_fusion[t_c] = val: the earlier contributions to t_c overwritten
dict_add_overwriting(d, key, val) ==
    IF \E i \in 1..Len(d) : d[i][1] = key
    THEN [i \in 1..Len(d) |-> IF d[i][1] = key THEN <<key, val>> ELSE d[i]]
    ELSE Append(d, <<key, val>>)

\* new_fusion[t_c] = new_fusion.get(t_c, 0) + val on a dict kept as the
\* sequence of its <<key, value>> items in insertion order
dict_add(d, key, val) ==
    IF \E i \in 1..Len(d) : d[i][1] = key
    THEN [i \in 1..Len(d) |-> IF d[i][1] = key THEN <<key, d[i][2] + val>> ELSE d[i]]
    ELSE Append(d, <<key, val>>)

RECURSIVE dict_add_all(_, _)
dict_add_all(d, items) ==
    IF items = <<>> THEN d
    ELSE dict_add_all(dict_add(d, Head(items)[1], Head(items)[2]), Tail(items))

\* the innermost loop `for s_c in symmetry.fusion_outcomes(s_a, s_b)`: the
\* items <<t_c, m_a * m_b * n>>, one per outcome
outcome_items(s, s_a, s_b, m, outcomes) ==
    [k \in 1..Len(outcomes) |-> <<outcomes[k], m * _n_symbol(s, s_a, s_b, outcomes[k])>>]

\* the loops over fusion.items() and over the sectors of space, filling
\* new_fusion
fuse_sectors(s, fusion, b_sectors, b_mults) ==
    dict_add_all(<<>>,
        Concat([i \in 1..Len(fusion) |->
            Concat([j \in 1..Len(b_sectors) |->
                outcome_items(s, fusion[i][1], b_sectors[j], fusion[i][2] * b_mults[j],
                              fusion_outcomes(s, fusion[i][1], b_sectors[j]))])]))

\* one pass of the loop `for space in spaces[1:]` of _fuse_spaces
fuse_step(s, fusion, space) ==
    fuse_sectors(s, fusion, _sorted_sectors(space), space._sorted_multiplicities)

RECURSIVE fuse_from(_, _, _)
fuse_from(s, fusion, rest) ==
    IF rest = <<>> THEN fusion
    ELSE fuse_from(s, fuse_step(s, fusion, Head(rest)), Tail(rest))

\* fusion = {tuple(s): m for s, m in zip(_sorted_sectors, _sorted_multiplicities)}
space_items(sorted_sectors, mults) ==
    [i \in 1..Len(sorted_sectors) |-> <<sorted_sectors[i], mults[i]>>]

\* the end of _fuse_spaces: the keys and the values of fusion, both sorted
\* by np.lexsort of the keys
sort_fusion(non_dual_sectors, mults, sort) ==
    <<take(non_dual_sectors, sort), take(mults, sort)>>

sorted_fusion(fusion) ==
    sort_fusion([i \in 1..Len(fusion) |-> fusion[i][1]],
                [i \in 1..Len(fusion) |-> fusion[i][2]],
                lexsort([i \in 1..Len(fusion) |-> fusion[i][1]]))

\* the body of _fuse_spaces after the spaces to fuse are settled
fuse_all(s, spaces) ==
    sorted_fusion(fuse_from(s,
        space_items(_sorted_sectors(spaces[1]), spaces[1]._sorted_multiplicities),
        Tail(spaces)))

\* _fuse_spaces without `if _is_dual: spaces = [s.dual for s in spaces]`
_fuse_spaces_ignoring_is_dual(s, spaces, _is_dual) == fuse_all(s, spaces)

\* _fuse_spaces: <<sectors, multiplicities>> of the product, sorted
_fuse_spaces(s, spaces, _is_dual) ==
    fuse_all(s, IF _is_dual THEN [i \in 1..Len(spaces) |-> dual(spaces[i])] ELSE spaces)

\* the call of VectorSpace.__init__ that ends ProductSpace.__init__, with
\* data = <<_sectors, _multiplicities>>
ProductSpace_from(spaces, is_dual, data, _sector_perm, _sorted_slices) ==
    [VectorSpaceInit(spaces[1].symmetry, data[1], Some(data[2]), spaces[1].is_real, is_dual,
                     IF _sector_perm.some THEN _sector_perm ELSE Some(arange(Len(data[1]))),
                     _sorted_slices)
        EXCEPT !.kind = "ProductSpace", !.spaces = spaces]

\* _sectors and _multiplicities as given, or else fused from the spaces
ProductSpace_data(spaces, is_dual, _sectors, _multiplicities) ==
    IF _sectors.some THEN <<_sectors.val, _multiplicities.val>>
    ELSE _fuse_spaces(spaces[1].symmetry, spaces, is_dual)

\* ProductSpace.__init__ with _is_dual defaulting to False
ProductSpaceInit_default_ket(spaces, _is_dual, _sectors, _multiplicities, _sector_perm, _sorted_slices) ==
    ProductSpace_from(spaces, _is_dual.some /\ _is_dual.val,
        ProductSpace_data(spaces, _is_dual.some /\ _is_dual.val, _sectors, _multiplicities),
        _sector_perm, _sorted_slices)

\* the default of _is_dual: that of the first space
ProductSpace_is_dual(spaces, _is_dual) ==
    IF _is_dual.some THEN _is_dual.val ELSE spaces[1].is_dual

\* ProductSpace.__init__; every argument but spaces is optional
ProductSpaceInit(spaces, _is_dual, _sectors, _multiplicities, _sector_perm, _sorted_slices) ==
    ProductSpace_from(spaces, ProductSpace_is_dual(spaces, _is_dual),
        ProductSpace_data(spaces, ProductSpace_is_dual(spaces, _is_dual), _sectors, _multiplicities),
        _sector_perm, _sorted_slices)

\* as_VectorSpace of the base class for a ProductSpace as well: self returned
as_VectorSpace_returns_self(x) == x

\* VectorSpace.as_VectorSpace (returns self) and ProductSpace.as_VectorSpace
as_VectorSpace(x) ==
    IF x.kind = "ProductSpace"
    THEN VectorSpaceInit(x.symmetry, x._non_dual_sorted_sectors, Some(x._sorted_multiplicities),
                         x.is_real, x.is_dual, Some(x._sector_perm), Some(x._sorted_slices))
    ELSE x

\* ProductSpace.flip_is_dual passing _multiplicities=self._sorted_multiplicities,
\* without [sort]
flip_is_dual_multiplicities_unsorted(x) ==
    IF x.kind = "ProductSpace"
    THEN LET dsectors == dual_sectors(x.symmetry, x._non_dual_sorted_sectors)
             sort == lexsort(dsectors)
         IN  ProductSpaceInit(x.spaces, Some(~x.is_dual),
                              Some(take(dsectors, sort)),
                              Some(x._sorted_multiplicities),
                              Some(take(x._sector_perm, sort)),
                              Some(take(x._sorted_slices, sort)))
    ELSE VectorSpaceInit(x.symmetry, dual_sectors(x.symmetry, x._non_dual_sorted_sectors),
                         Some(x._sorted_multiplicities), x.is_real, ~x.is_dual, No, No)

\* only the flag flipped: the sectors are not dualised
flip_is_dual_as_dual(x) == dual(x)

\* VectorSpace.flip_is_dual and ProductSpace.flip_is_dual
flip_is_dual(x) ==
    IF x.kind = "ProductSpace"
    THEN LET dsectors == dual_sectors(x.symmetry, x._non_dual_sorted_sectors)
             sort == lexsort(dsectors)
         IN  ProductSpaceInit(x.spaces, Some(~x.is_dual),
                              Some(take(dsectors, sort)),
                              Some(take(x._sorted_multiplicities, sort)),
                              Some(take(x._sector_perm, sort)),
                              Some(take(x._sorted_slices, sort)))
    ELSE VectorSpaceInit(x.symmetry, dual_sectors(x.symmetry, x._non_dual_sorted_sectors),
                         Some(x._sorted_multiplicities), x.is_real, ~x.is_dual, No, No)

(***************************************************************************)
(* The session: one symmetry, two VectorSpaces V and W built by the        *)
(* general constructor, and the last two spaces obtained from them, p (the *)
(* receiver or the previous result) and q (the latest result).  op records *)
(* the last call and its arguments.                                        *)
(***************************************************************************)
U1xZ3 == ProductSymmetry(<<U1Symmetry(No), ZNSymmetry(3, No)>>)

Symmetries == {ZNSymmetry(3, No), U1xZ3}

\* the sectors a session builds its VectorSpaces from
SectorPool(s) ==
    CASE s.kind = "ZNSymmetry" -> {<<1>>, <<2>>}
      [] s.kind = "ProductSymmetry" -> {<<0, 1>>, <<1, 0>>}
      [] s.kind = "SU2Symmetry" -> {<<0>>, <<1>>}

\* the non-empty lists of pairwise distinct sectors, in any order
SectorLists(s) ==
    UNION {{l \in [1..n -> SectorPool(s)] : \A i, j \in 1..n : i # j => l[i] # l[j]}
           : n \in 1..Cardinality(SectorPool(s))}

NoSpace == [kind |-> "None"]

NoOp == [name |-> "none", target |-> "none", sectors |-> <<>>, multiplicities |-> No,
         _is_dual |-> No, spaces |-> <<>>]

get(name) ==
    CASE name = "V" -> V
      [] name = "W" -> W
      [] name = "q" -> q

\* the VectorSpaces built so far, in the order they were built
leaves == IF W = NoSpace THEN <<V>> ELSE <<V, W>>

OptBool == {No, Some(TRUE), Some(FALSE)}

Init ==
    /\ symmetry \in Symmetries
    /\ V = NoSpace
    /\ W = NoSpace
    /\ p = NoSpace
    /\ q = NoSpace
    /\ op = NoOp
    /\ heap = <<>>

\* V = VectorSpace(symmetry, S, multiplicities=M, _is_dual=d), then
\* W = VectorSpace(symmetry, S, _is_dual=d) with the default multiplicities
NewVectorSpace(r, S, M, d) ==
    /\ q = NoSpace
    /\ \/ r = "V" /\ V = NoSpace /\ M.some
       \/ r = "W" /\ V # NoSpace /\ W = NoSpace /\ ~M.some
    /\ LET x == VectorSpaceInit(symmetry, S, M, FALSE, d, No, No)
       IN  /\ V' = IF r = "V" THEN x ELSE V
           /\ W' = IF r = "W" THEN x ELSE W
    /\ op' = [NoOp EXCEPT !.name = "VectorSpace", !.target = r, !.sectors = S,
                          !.multiplicities = M, !._is_dual = Some(d)]
    /\ UNCHANGED <<symmetry, heap, p, q>>

\* q = ProductSpace(leaves, _is_dual=d)
NewProductSpace(d) ==
    /\ V # NoSpace
    /\ q' = ProductSpaceInit(leaves, d, No, No, No, No)
    /\ p' = NoSpace
    /\ op' = [NoOp EXCEPT !.name = "ProductSpace", !._is_dual = d]
    /\ UNCHANGED <<symmetry, heap, V, W>>

\* q = ProductSpace([q, ...]) right after q = ProductSpace(leaves, ...): a
\* nested product, its first factor the product just built
Nest(rest) ==
    /\ op.name = "ProductSpace"
    /\ op._is_dual = No
    /\ \A i \in 1..Len(rest) : get(rest[i]) # NoSpace
    /\ q' = ProductSpaceInit(<<q>> \o [i \in 1..Len(rest) |-> get(rest[i])], No, No, No, No, No)
    /\ p' = q
    /\ op' = [NoOp EXCEPT !.name = "nest", !.spaces = rest]
    /\ UNCHANGED <<symmetry, heap, V, W>>

\* q = ProductSpace([s.dual for s in q.spaces], _is_dual=d) right after
\* q = ProductSpace(leaves, ...): the product of the dual factors
ProductSpaceOfDuals(d) ==
    /\ op.name = "ProductSpace"
    /\ q' = ProductSpaceInit([i \in 1..Len(q.spaces) |-> dual(q.spaces[i])], d, No, No, No, No)
    /\ p' = q
    /\ op' = [NoOp EXCEPT !.name = "ProductSpace_of_duals", !._is_dual = d]
    /\ UNCHANGED <<symmetry, heap, V, W>>

\* q = x.dual for x one of V, q
Dual(src) ==
    /\ get(src) # NoSpace
    /\ p' = get(src)
    /\ q' = dual(get(src))
    /\ op' = [NoOp EXCEPT !.name = "dual", !.target = src]
    /\ UNCHANGED <<symmetry, heap, V, W>>

\* q = x.flip_is_dual()
FlipIsDual(src) ==
    /\ get(src) # NoSpace
    /\ p' = get(src)
    /\ q' = flip_is_dual(get(src))
    /\ op' = [NoOp EXCEPT !.name = "flip_is_dual", !.target = src]
    /\ UNCHANGED <<symmetry, heap, V, W>>

\* q = x.as_VectorSpace()
AsVectorSpace(src) ==
    /\ get(src) # NoSpace
    /\ p' = get(src)
    /\ q' = as_VectorSpace(get(src))
    /\ op' = [NoOp EXCEPT !.name = "as_VectorSpace", !.target = src]
    /\ UNCHANGED <<symmetry, heap, V, W>>

Next ==
    \/ \E r \in {"V", "W"}, S \in SectorLists(symmetry), d \in BOOLEAN :
          \E M \in {No} \cup {Some(m) : m \in [1..Len(S) -> 1..MaxMult]} :
              NewVectorSpace(r, S, M, d)
    \/ \E d \in OptBool : NewProductSpace(d)
    \/ \E rest \in {<<"V">>, <<"W">>} : Nest(rest)
    \/ \E d \in OptBool : ProductSpaceOfDuals(d)
    \/ \E src \in {"V", "q"} : Dual(src)
    \/ \E src \in {"V", "q"} : FlipIsDual(src)
    \/ \E src \in {"V", "q"} : AsVectorSpace(src)

Spec == Init /\ [][Next]_vars

(***************************************************************************)
(* The spaces of a state: V, W, p, q and, recursively, their factors.      *)
(***************************************************************************)
RECURSIVE factors_of(_)
factors_of(x) == {x} \cup UNION {factors_of(x.spaces[i]) : i \in 1..Len(x.spaces)}

Spaces == UNION {factors_of(x) : x \in {V, W, p, q} \ {NoSpace}}

\* the receiver of the last call is a product one of whose factors is a product
nested(x) == x.kind = "ProductSpace" /\ \E i \in 1..Len(x.spaces) : x.spaces[i].kind = "ProductSpace"

\* the usual lexicographic order of rows: the first column is the primary key
lex_less(a, b) ==
    \E k \in 1..Len(a) :
        /\ a[k] < b[k]
        /\ \A j \in 1..(k - 1) : a[j] = b[j]

pairwise_distinct(rows) == \A i, j \in 1..Len(rows) : i # j => rows[i] # rows[j]

\* consecutive slices covering [0, d)
contiguous(sl, d) ==
    /\ sl[1][1] = 0
    /\ \A i \in 1..(Len(sl) - 1) : sl[i][2] = sl[i + 1][1]
    /\ sl[Len(sl)][2] = d

(***************************************************************************)
(* C1, as stated: the canonical sectors of every space are strictly        *)
(* lexicographically increasing (first component most significant) and     *)
(* pairwise distinct.                                                      *)
(***************************************************************************)
C1_LexicographicallyIncreasing ==
    \A x \in Spaces :
        LET rows == x._non_dual_sorted_sectors
        IN  /\ \A i \in 1..(Len(rows) - 1) : lex_less(rows[i], rows[i + 1])
            /\ pairwise_distinct(rows)

(***************************************************************************)
(* C1, amended: the canonical sectors of every space built from pairwise   *)
(* distinct sectors, by the constructor, by fusion or by any sequence of   *)
(* dual, flip_is_dual and as_VectorSpace, are pairwise distinct and        *)
(* strictly increasing in the order of np.lexsort, which compares rows     *)
(* from the last component to the first.                                   *)
(***************************************************************************)
C1_LexsortIncreasing ==
    \A x \in Spaces :
        LET rows == x._non_dual_sorted_sectors
        IN  /\ \A i \in 1..(Len(rows) - 1) : lexsort_less(rows[i], rows[i + 1])
            /\ pairwise_distinct(rows)

C1_Witness ==
    /\ op.name = "flip_is_dual"
    /\ q.kind = "ProductSpace"
    /\ Len(q.spaces) = 2
    /\ Len(q._non_dual_sorted_sectors) >= 3
    /\ q._non_dual_sorted_sectors # p._non_dual_sorted_sectors

(***************************************************************************)
(* C2, as stated: the slices of every space with at least one sector,      *)
(* taken in canonical (sorted) order, are contiguous from 0 to dim.        *)
(***************************************************************************)
C2_SortedSlicesContiguous ==
    \A x \in Spaces : num_sectors(x) > 0 => contiguous(x._sorted_slices, dim(x))

(***************************************************************************)
(* C2, amended: the slices of every space with at least one sector, taken  *)
(* in the public (insertion) order, are contiguous: the first starts at 0, *)
(* each ends where the next starts, and the last ends at dim.              *)
(***************************************************************************)
C2_PublicSlicesContiguous ==
    \A x \in Spaces : num_sectors(x) > 0 => contiguous(slices(x), dim(x))

C2_Witness ==
    /\ op.name = "VectorSpace"
    /\ V._sector_perm = <<2, 1>>
    /\ V._sorted_multiplicities = <<2, 1>>
    /\ V._sorted_slices = <<(<<1, 3>>), (<<0, 1>>)>>

(***************************************************************************)
(* C3: a VectorSpace built by the general constructor from sectors S and   *)
(* multiplicities M shows its input in insertion order: multiplicities is  *)
(* M, sectors is S for a ket space and dual_sectors(S) for a bra space;    *)
(* the canonical sectors are sectors[_sector_perm] for a ket space and     *)
(* dual_sectors(sectors[_sector_perm]) for a bra space; and                *)
(* VectorSpace(S, M).dual == VectorSpace(S, M, _is_dual=True).             *)
(***************************************************************************)
C3_PublicViewsReproduceInput ==
    op.name = "VectorSpace" =>
        LET x == get(op.target)
            S == op.sectors
            M == IF op.multiplicities.some THEN op.multiplicities.val
                 ELSE [i \in 1..Len(S) |-> 1]
            sorted == take(sectors(x), x._sector_perm)
            ket == VectorSpaceInit(symmetry, S, op.multiplicities, FALSE, FALSE, No, No)
            bra == VectorSpaceInit(symmetry, S, op.multiplicities, FALSE, TRUE, No, No)
        IN  /\ multiplicities(x) = M
            /\ sectors(x) = IF op._is_dual.val THEN dual_sectors(symmetry, S) ELSE S
            /\ x._non_dual_sorted_sectors =
                   IF x.is_dual THEN dual_sectors(symmetry, sorted) ELSE sorted
            /\ eq(dual(ket), bra)
            /\ eq(x, IF op._is_dual.val THEN dual(ket) ELSE dual(bra))

C3_Witness ==
    /\ op.name = "VectorSpace"
    /\ op.target = "V"
    /\ op._is_dual = Some(TRUE)
    /\ op.multiplicities = Some(<<1, 2>>)
    /\ V._sector_perm = <<2, 1>>
    /\ sectors(V) # op.sectors

(***************************************************************************)
(* C4: dual is an involution under ==: for every VectorSpace and every     *)
(* ProductSpace, flat or nested, space.dual.dual == space, while           *)
(* space != space.dual.                                                    *)
(***************************************************************************)
C4_DualInvolution ==
    /\ \A x \in Spaces :
        /\ eq(dual(dual(x)), x)
        /\ eq(x, dual(dual(x)))
        /\ ~eq(x, dual(x))
        /\ ~eq(dual(x), x)
    /\ op.name = "dual" => eq(dual(q), p) /\ ~eq(p, q)

C4_Witness ==
    /\ op.name = "dual"
    /\ nested(p)
    /\ Len(p.spaces) = 2
    /\ W # NoSpace
    /\ V.is_dual # W.is_dual

(***************************************************************************)
(* C5: for every space, space.dual.sectors is                              *)
(* symmetry.dual_sectors(space.sectors), row by row in insertion order,    *)
(* and space.dual.multiplicities is space.multiplicities.                  *)
(***************************************************************************)
C5_DualSectors ==
    /\ \A x \in Spaces :
        /\ sectors(dual(x)) = dual_sectors(x.symmetry, sectors(x))
        /\ multiplicities(dual(x)) = multiplicities(x)
    /\ op.name = "dual" => sectors(q) = dual_sectors(symmetry, sectors(p))

C5_Witness ==
    /\ op.name = "dual"
    /\ op.target = "V"
    /\ V._sector_perm = <<2, 1>>
    /\ multiplicities(q) = <<2, 1>>
    /\ sectors(q) # sectors(p)

(***************************************************************************)
(* C6: can_contract_with is symmetric: for any two spaces A and B of one   *)
(* symmetry, each a VectorSpace or a ProductSpace,                         *)
(* A.can_contract_with(B) == B.can_contract_with(A), and both are false    *)
(* when exactly one of A and B is a ProductSpace.                          *)
(***************************************************************************)
C6_ContractSymmetric ==
    \A a, b \in Spaces :
        /\ can_contract_with(a, b) = can_contract_with(b, a)
        /\ a.kind # b.kind => ~can_contract_with(a, b) /\ ~can_contract_with(b, a)

\* a product and its dual, and a plain VectorSpace that differs from the
\* product only in its class and in is_dual
C6_Witness ==
    /\ op.name = "dual"
    /\ p.kind = "ProductSpace"
    /\ can_contract_with(p, q)
    /\ can_contract_with(q, p)
    /\ is_equal_or_dual(V, q)
    /\ V.is_dual # q.is_dual

(***************************************************************************)
(* C7: nesting does not change the fused content: for VectorSpaces A, B, C *)
(* of one symmetry with any is_dual flags and the default _is_dual,        *)
(* ProductSpace([ProductSpace([A, B]), C]) has the sectors and the         *)
(* multiplicities of ProductSpace([A, B, C]), and the two are not ==.      *)
(***************************************************************************)
C7_NestingKeepsContent ==
    op.name = "nest" =>
        LET flat == ProductSpaceInit(p.spaces \o <<get(op.spaces[1])>>, No, No, No, No, No)
        IN  /\ sectors(q) = sectors(flat)
            /\ multiplicities(q) = multiplicities(flat)
            /\ ~eq(q, flat)
            /\ ~eq(flat, q)

C7_Witness ==
    /\ op.name = "nest"
    /\ op.spaces = <<"W">>
    /\ Len(p.spaces) = 2
    /\ V.is_dual
    /\ ~W.is_dual
    /\ num_sectors(q) >= 3
    /\ \E i \in 1..num_sectors(q) : multiplicities(q)[i] >= 3

(***************************************************************************)
(* C8: every space is contractible with its dual and never with itself:    *)
(* p.can_contract_with(p.dual) for every ProductSpace p, flat or nested,   *)
(* and for every VectorSpace s, s.can_contract_with(s.dual) and not        *)
(* s.can_contract_with(s).                                                 *)
(***************************************************************************)
C8_ContractWithDual ==
    /\ \A x \in Spaces :
        /\ can_contract_with(x, dual(x))
        /\ x.kind = "VectorSpace" => ~can_contract_with(x, x)
    /\ op.name = "dual" => can_contract_with(p, q)

C8_Witness ==
    /\ op.name = "dual"
    /\ op.target = "q"
    /\ nested(p)
    /\ Len(p.spaces[1].spaces) = 2
    /\ num_sectors(V) = 2

\* V and W are both built and neither is dual
non_dual_factors == W # NoSpace /\ ~V.is_dual /\ ~W.is_dual

(***************************************************************************)
(* C9, as stated: for non-dual V and W, ProductSpace([V, W]) built with    *)
(* is_dual=True has the canonical sectors of                               *)
(* P1 = ProductSpace([V, W], is_dual=False), the opposite is_dual, and     *)
(* P1.can_contract_with(it).                                               *)
(***************************************************************************)
C9_SameFactorsContractible ==
    (op.name = "ProductSpace" /\ op._is_dual = Some(TRUE) /\ non_dual_factors) =>
        LET P1 == ProductSpaceInit(leaves, Some(FALSE), No, No, No, No)
        IN  /\ q._non_dual_sorted_sectors = P1._non_dual_sorted_sectors
            /\ q.is_dual # P1.is_dual
            /\ can_contract_with(P1, q)

(***************************************************************************)
(* C9, amended: for non-dual V and W and                                   *)
(* P1 = ProductSpace([V, W], is_dual=False), it is                         *)
(* ProductSpace([V.dual, W.dual], is_dual=True) that has the canonical     *)
(* sectors of P1, the opposite is_dual, and is contractible with P1.       *)
(* ProductSpace([V, W], is_dual=True), with the factor list of P1, has the *)
(* opposite is_dual too, but its canonical sectors are the duals of P1's,  *)
(* sorted again, and P1 cannot be contracted with it.                      *)
(***************************************************************************)
C9_DualFactorsContractible ==
    /\ (op.name = "ProductSpace_of_duals" /\ op._is_dual = Some(TRUE)
            /\ non_dual_factors /\ ~p.is_dual) =>
        /\ p.spaces = leaves
        /\ q._non_dual_sorted_sectors = p._non_dual_sorted_sectors
        /\ q.is_dual # p.is_dual
        /\ can_contract_with(p, q)
    /\ (op.name = "ProductSpace" /\ op._is_dual = Some(TRUE) /\ non_dual_factors) =>
        LET P1 == ProductSpaceInit(leaves, Some(FALSE), No, No, No, No)
            duals == dual_sectors(symmetry, P1._non_dual_sorted_sectors)
        IN  /\ q._non_dual_sorted_sectors = take(duals, lexsort(duals))
            /\ q.is_dual # P1.is_dual
            /\ ~can_contract_with(P1, q)

C9_Witness ==
    /\ op.name = "ProductSpace_of_duals"
    /\ op._is_dual = Some(TRUE)
    /\ non_dual_factors
    /\ ~p.is_dual
    /\ num_sectors(p) >= 2
    /\ p._non_dual_sorted_sectors # dual_sectors(symmetry, p._non_dual_sorted_sectors)

(***************************************************************************)
(* C10: with _is_dual left at its default a ProductSpace takes is_dual     *)
(* from its first factor, and for every factor list spaces,                *)
(* ProductSpace(spaces).can_contract_with(ProductSpace([s.dual for s in    *)
(* spaces])).                                                              *)
(***************************************************************************)
C10_DefaultIsDual ==
    /\ (op.name \in {"ProductSpace", "nest", "ProductSpace_of_duals"} /\ op._is_dual = No) =>
        /\ q.is_dual = q.spaces[1].is_dual
        /\ can_contract_with(q, ProductSpaceInit([i \in 1..Len(q.spaces) |-> dual(q.spaces[i])],
                                                 No, No, No, No, No))
    /\ (op.name = "ProductSpace_of_duals" /\ op._is_dual = No
            /\ p.is_dual = p.spaces[1].is_dual) =>
        can_contract_with(p, q)

C10_Witness ==
    /\ op.name = "ProductSpace_of_duals"
    /\ op._is_dual = No
    /\ W # NoSpace
    /\ V.is_dual
    /\ ~W.is_dual
    /\ p.is_dual
    /\ ~q.is_dual
    /\ can_contract_with(p, q)

(***************************************************************************)
(* VectorSpace.is_subspace_of.  The result is "True", "False" or           *)
(* "IndexError", the exception of the read                                 *)
(* self._non_dual_sorted_sectors[n_self] past the end of the array.        *)
(***************************************************************************)
\* the loop over zip(other._non_dual_sorted_sectors, other._sorted_multiplicities),
\* at the k-th sector of other with n_self sectors of self checked
RECURSIVE subspace_scan(_, _, _, _)
subspace_scan(x, y, k, n_self) ==
    IF k > num_sectors(y) THEN "False"
    ELSE IF n_self + 1 > num_sectors(x) THEN "IndexError"
    ELSE LET found == x._non_dual_sorted_sectors[n_self + 1] = y._non_dual_sorted_sectors[k]
             n_next == IF found THEN n_self + 1 ELSE n_self
         IN  IF found /\ x._sorted_multiplicities[n_self + 1] > y._sorted_multiplicities[k]
             THEN "False"
             ELSE IF n_next = num_sectors(x) THEN "True"
             ELSE subspace_scan(x, y, k + 1, n_next)

is_subspace_of(x, y) ==
    IF x.is_dual # y.is_dual THEN "False"
    ELSE IF ~symmetry_eq(x.symmetry, y.symmetry) THEN "False"
    ELSE subspace_scan(x, y, 1, 0)

(***************************************************************************)
(* Pairs of spaces and the subspace test: V of the session's symmetry, W   *)
(* of any symmetry, each with zero, one or two sectors, and one call       *)
(* self.is_subspace_of(other) at a time.                                   *)
(***************************************************************************)
Z3_named == ZNSymmetry(3, Some(<<"a">>))

SubspaceSymmetries == Symmetries \cup {Z3_named}

\* the lists of pairwise distinct sectors, the empty list included
SectorListsOrEmpty(s) == {<<>>} \cup SectorLists(s)

\* V or W = VectorSpace(s, S, multiplicities=M, _is_dual=d)
BuildSpace(r, s, S, M, d) ==
    /\ \/ r = "V" /\ V = NoSpace /\ s = symmetry
       \/ r = "W" /\ V # NoSpace /\ W = NoSpace
    /\ LET x == VectorSpaceInit(s, S, Some(M), FALSE, d, No, No)
       IN  /\ V' = IF r = "V" THEN x ELSE V
           /\ W' = IF r = "W" THEN x ELSE W
    /\ op' = [NoOp EXCEPT !.name = "VectorSpace", !.target = r, !.sectors = S,
                          !.multiplicities = Some(M), !._is_dual = Some(d)]
    /\ UNCHANGED <<symmetry, heap, p, q>>

\* p.is_subspace_of(q) for p, q among V and W; op.result is the outcome
IsSubspaceOf(a, b) ==
    /\ V # NoSpace
    /\ W # NoSpace
    /\ p' = get(a)
    /\ q' = get(b)
    /\ op' = [name |-> "is_subspace_of", target |-> a, other |-> b,
              result |-> is_subspace_of(get(a), get(b))]
    /\ UNCHANGED <<symmetry, heap, V, W>>

SubspaceNext ==
    \/ \E r \in {"V", "W"}, s \in SubspaceSymmetries, d \in BOOLEAN :
         \E S \in SectorListsOrEmpty(s) : \E M \in [1..Len(S) -> 1..MaxMult] :
            BuildSpace(r, s, S, M, d)
    \/ \E a, b \in {"V", "W"} : IsSubspaceOf(a, b)

SubspaceSpec == Init /\ [][SubspaceNext]_vars

\* the multiplicity of a canonical sector in a space, 0 when it has none
_non_dual_sector_multiplicity(x, sector) ==
    IF \E i \in 1..num_sectors(x) : x._non_dual_sorted_sectors[i] = sector
    THEN x._sorted_multiplicities[CHOOSE i \in 1..num_sectors(x) :
                                      x._non_dual_sorted_sectors[i] = sector]
    ELSE 0

\* self and other have the same is_dual and symmetry, and every canonical
\* sector of self is in other with at least self's multiplicity
contained_in(x, y) ==
    /\ x.is_dual = y.is_dual
    /\ symmetry_eq(x.symmetry, y.symmetry)
    /\ \A i \in 1..num_sectors(x) :
          LET m == _non_dual_sector_multiplicity(y, x._non_dual_sorted_sectors[i])
          IN  m > 0 /\ x._sorted_multiplicities[i] <= m

(***************************************************************************)
(* C11: for all pairs of spaces, with any number of sectors, zero          *)
(* included, self.is_subspace_of(other) returns true exactly when self and *)
(* other have the same is_dual and symmetry and every canonical sector of  *)
(* self occurs in other with at least self's multiplicity, and returns     *)
(* false, without raising, otherwise; so it is reflexive.                  *)
(***************************************************************************)
C11_SubspaceExactly ==
    op.name = "is_subspace_of" =>
        /\ op.result \in {"True", "False"}
        /\ op.result = "True" <=> contained_in(p, q)
        /\ op.target = op.other => op.result = "True"

(***************************************************************************)
(* VectorSpace.parse_index, _parse_index and idx_to_sector.  A result is   *)
(* a record: raised is "IndexError" or "none".  sector_idx is 0-based, as  *)
(* in the source.                                                          *)
(***************************************************************************)
\* bisect.bisect(a, x, lo, hi): the binary search for the insertion point of
\* x after any entry equal to x; lo, hi and the result are 0-based
RECURSIVE bisect(_, _, _, _)
bisect(a, x, lo, hi) ==
    IF lo >= hi THEN lo
    ELSE LET mid == (lo + hi) \div 2
         IN  IF x < a[mid + 1] THEN bisect(a, x, lo, mid)
             ELSE bisect(a, x, mid + 1, hi)

IndexError == [raised |-> "IndexError"]

\* parse_index answering in the internal sorted order of the sectors
parse_index_in_sorted_order(x, idx) ==
    IF ~(-dim(x) <= idx /\ idx < dim(x)) THEN IndexError
    ELSE LET i == IF idx < 0 THEN idx + dim(x) ELSE idx
             k == CHOOSE k \in 1..num_sectors(x) :
                      x._sorted_slices[k][1] <= i /\ i < x._sorted_slices[k][2]
         IN  [raised |-> "none", sector_idx |-> k - 1,
              multiplicity_idx |-> i - x._sorted_slices[k][1]]

parse_index(x, idx) ==
    IF ~(-dim(x) <= idx /\ idx < dim(x)) THEN IndexError
    ELSE LET i == IF idx < 0 THEN idx + dim(x) ELSE idx
             starts == [k \in 1..num_sectors(x) |-> slices(x)[k][1]]
             sector_idx == bisect(starts, i, 0, Len(starts)) - 1
         IN  [raised |-> "none", sector_idx |-> sector_idx,
              multiplicity_idx |-> i - slices(x)[sector_idx + 1][1]]

_parse_index(x, idx) ==
    LET res == parse_index(x, idx)
    IN  IF res.raised # "none" THEN res
        ELSE [res EXCEPT !.sector_idx = x._inverse_sector_perm[res.sector_idx + 1] - 1]

idx_to_sector(x, idx) ==
    LET res == _parse_index(x, idx)
    IN  IF res.raised # "none" THEN res
        ELSE LET a == x._non_dual_sorted_sectors[res.sector_idx + 1]
             IN  [raised |-> "none",
                  sector |-> IF x.is_dual THEN dual_sector(x.symmetry, a) ELSE a]

(***************************************************************************)
(* One space V and calls of parse_index and idx_to_sector on it, with      *)
(* indices from two below -dim to one above dim - 1.                       *)
(***************************************************************************)
IndexSymmetries == Symmetries \cup {SU2Symmetry(No)}

IndexInit ==
    /\ symmetry \in IndexSymmetries
    /\ V = NoSpace
    /\ W = NoSpace
    /\ p = NoSpace
    /\ q = NoSpace
    /\ op = NoOp
    /\ heap = <<>>

Indices(x) == (-dim(x) - 2)..(dim(x) + 1)

ParseIndex(idx) ==
    /\ V # NoSpace
    /\ op' = [name |-> "parse_index", target |-> "V", idx |-> idx,
              result |-> parse_index(V, idx)]
    /\ UNCHANGED <<symmetry, heap, V, W, p, q>>

IdxToSector(idx) ==
    /\ V # NoSpace
    /\ op' = [name |-> "idx_to_sector", target |-> "V", idx |-> idx,
              result |-> idx_to_sector(V, idx)]
    /\ UNCHANGED <<symmetry, heap, V, W, p, q>>

IndexNext ==
    \/ \E d \in BOOLEAN, S \in SectorListsOrEmpty(symmetry) :
         \E M \in [1..Len(S) -> 1..MaxMult] : BuildSpace("V", symmetry, S, M, d)
    \/ V # NoSpace /\ \E idx \in Indices(V) : ParseIndex(idx)
    \/ V # NoSpace /\ \E idx \in Indices(V) : IdxToSector(idx)

IndexSpec == IndexInit /\ [][IndexNext]_vars

\* idx counted from the start of the dense basis
from_start(x, idx) == IF idx < 0 THEN idx + dim(x) ELSE idx

\* the public sectors (1-based positions) whose slice [start, stop) holds i
holding(x, i) == {k \in 1..num_sectors(x) : slices(x)[k][1] <= i /\ i < slices(x)[k][2]}

(***************************************************************************)
(* C12: parse_index(idx) raises a range error for every idx >= dim and     *)
(* every idx < -dim; for every other idx it maps a negative idx to         *)
(* idx + dim and returns (sector_idx, offset), where sector_idx is the     *)
(* position in the public sectors of the one whose slice [start, end)      *)
(* contains the index and offset is the index minus start; and             *)
(* idx_to_sector(idx) is sectors[sector_idx].                              *)
(***************************************************************************)
C12_ParseIndex ==
    V # NoSpace /\ op.name \in {"parse_index", "idx_to_sector"} =>
        IF op.idx >= dim(V) \/ op.idx < -dim(V)
        THEN op.result = IndexError
        ELSE LET i == from_start(V, op.idx)
             IN  /\ Cardinality(holding(V, i)) = 1
                 /\ \A k \in holding(V, i) :
                       IF op.name = "parse_index"
                       THEN op.result = [raised |-> "none", sector_idx |-> k - 1,
                                         multiplicity_idx |-> i - slices(V)[k][1]]
                       ELSE op.result = [raised |-> "none", sector |-> sectors(V)[k]]

\* a negative index into the second of two sectors given in unsorted order
C12_Witness ==
    /\ op.name = "parse_index"
    /\ op.idx < 0
    /\ V._sector_perm = <<2, 1>>
    /\ V.is_dual
    /\ op.result.raised = "none"
    /\ op.result.sector_idx = 1
    /\ op.result.multiplicity_idx = 1

(***************************************************************************)
(* The methods of one symmetry, called on valid sectors.  The symmetry is  *)
(* chosen at the start; a call leaves it as it is and records its         *)
(* arguments and its result in op.  The methods are pure, so a behaviour   *)
(* is one call.                                                            *)
(***************************************************************************)
PlainSymmetries ==
    {NoSymmetry, U1Symmetry(No), SU2Symmetry(No), FermionParity}
        \cup {ZNSymmetry(N, No) : N \in 1..MaxN}

SymmetryPool ==
    PlainSymmetries
        \cup {U1xZ3,
              ProductSymmetry(<<SU2Symmetry(No), SU2Symmetry(No)>>),
              ProductSymmetry(<<FermionParity, U1Symmetry(No)>>),
              ProductSymmetry(<<NoSymmetry, SU2Symmetry(No)>>),
              ProductSymmetry(<<ZNSymmetry(2, No), SU2Symmetry(No), FermionParity>>)}

SectorValues == (-MaxCharge)..MaxCharge

ValidSectors(s) ==
    {a \in [1..sector_ind_len(s) -> SectorValues] : is_valid_sector(s, a)}

\* batches of at most two valid sectors
Batches(s) ==
    {<<>>} \cup {<<a>> : a \in ValidSectors(s)}
           \cup {<<a, b>> : a \in ValidSectors(s), b \in ValidSectors(s)}

SymmetryInit ==
    /\ symmetry \in SymmetryPool
    /\ V = NoSpace
    /\ W = NoSpace
    /\ p = NoSpace
    /\ q = NoSpace
    /\ op = NoOp
    /\ heap = <<>>

FusionOutcomes(a, b) ==
    /\ op' = [name |-> "fusion_outcomes", a |-> a, b |-> b,
              result |-> fusion_outcomes(symmetry, a, b)]
    /\ UNCHANGED <<symmetry, heap, V, W, p, q>>

DualSector(a) ==
    /\ op' = [name |-> "dual_sector", a |-> a, result |-> dual_sector(symmetry, a)]
    /\ UNCHANGED <<symmetry, heap, V, W, p, q>>

DualSectors(batch) ==
    /\ op' = [name |-> "dual_sectors", sectors |-> batch,
              result |-> dual_sectors(symmetry, batch)]
    /\ UNCHANGED <<symmetry, heap, V, W, p, q>>

NSymbol(a, b, c) ==
    /\ op' = [name |-> "n_symbol", a |-> a, b |-> b, c |-> c,
              result |-> n_symbol(symmetry, a, b, c)]
    /\ UNCHANGED <<symmetry, heap, V, W, p, q>>

SymmetryNext ==
    \/ op = NoOp /\ \E a, b \in ValidSectors(symmetry) : FusionOutcomes(a, b)
    \/ op = NoOp /\ \E a \in ValidSectors(symmetry) : DualSector(a)
    \/ op = NoOp /\ \E batch \in Batches(symmetry) : DualSectors(batch)
    \/ op = NoOp /\ \E a, b, c \in ValidSectors(symmetry) : NSymbol(a, b, c)

SymmetrySpec == SymmetryInit /\ [][SymmetryNext]_vars

(***************************************************************************)
(* C13: for ZNSymmetry(N) and all sectors 0 <= a, b < N,                   *)
(* fusion_outcomes([a], [b]) is exactly the single sector [(a + b) mod N], *)
(* which is again a valid sector of Z_N.                                   *)
(***************************************************************************)
C13_ZNFusion ==
    (symmetry.kind = "ZNSymmetry" /\ op.name = "fusion_outcomes") =>
        /\ op.result = << <<(op.a[1] + op.b[1]) % symmetry.N>> >>
        /\ is_valid_sector(symmetry, op.result[1])

\* [2] and [2] of Z_3 fuse to [1]: the sum wraps around
C13_Witness ==
    /\ symmetry = ZNSymmetry(3, No)
    /\ op.name = "fusion_outcomes"
    /\ op.a = <<2>>
    /\ op.b = <<2>>
    /\ op.result = << <<1>> >>

(***************************************************************************)
(* C14: for SU2Symmetry and all valid sectors a, b, fusion_outcomes is     *)
(* exactly the duplicate-free list |a-b|, |a-b|+2, ..., a+b, both ends     *)
(* included; fusing [2] with [2] yields exactly {[0], [2], [4]}.           *)
(***************************************************************************)
C14_SU2Fusion ==
    (symmetry.kind = "SU2Symmetry" /\ op.name = "fusion_outcomes") =>
        LET lo == Abs(op.a[1] - op.b[1])
            hi == op.a[1] + op.b[1]
        IN  /\ Len(op.result) = (hi - lo) \div 2 + 1
            /\ \A i \in 1..Len(op.result) : op.result[i] = <<lo + 2 * (i - 1)>>
            /\ op.result[Len(op.result)] = <<hi>>
            /\ Cardinality(Range(op.result)) = Len(op.result)
            /\ (op.a = <<2>> /\ op.b = <<2>>) => Range(op.result) = {<<0>>, <<2>>, <<4>>}

\* two spin-1 sectors
C14_Witness ==
    /\ symmetry = SU2Symmetry(No)
    /\ op.name = "fusion_outcomes"
    /\ op.a = <<2>>
    /\ op.b = <<2>>
    /\ op.result = << <<0>>, <<2>>, <<4>> >>

(***************************************************************************)
(* C15: for every symmetry and every valid sector a, dual_sector(a) is a   *)
(* valid sector, dual_sector(dual_sector(a)) = a, the trivial sector is    *)
(* among fusion_outcomes(a, dual_sector(a)); and dual_sectors of a batch   *)
(* is dual_sector applied row by row.                                      *)
(***************************************************************************)
C15_DualSector ==
    /\ op.name = "dual_sector" =>
          /\ is_valid_sector(symmetry, op.result)
          /\ dual_sector(symmetry, op.result) = op.a
          /\ trivial_sector(symmetry) \in Range(fusion_outcomes(symmetry, op.a, op.result))
    /\ op.name = "dual_sectors" =>
          /\ Len(op.result) = Len(op.sectors)
          /\ \A r \in 1..Len(op.sectors) : op.result[r] = dual_sector(symmetry, op.sectors[r])

\* a sector of U(1) x Z_3 that is not its own dual, in either component
C15_Witness ==
    /\ symmetry = U1xZ3
    /\ op.name = "dual_sector"
    /\ op.a = <<1, 1>>
    /\ op.result = <<-1, 2>>

(***************************************************************************)
(* C16: for every symmetry, trivial_sector is a valid sector and the       *)
(* fusion identity: for every valid sector a, fusion_outcomes(a,           *)
(* trivial_sector) and fusion_outcomes(trivial_sector, a) both consist of  *)
(* exactly the one sector a.                                               *)
(***************************************************************************)
C16_TrivialSector ==
    /\ is_valid_sector(symmetry, trivial_sector(symmetry))
    /\ op.name = "fusion_outcomes" =>
          /\ op.b = trivial_sector(symmetry) => op.result = <<op.a>>
          /\ op.a = trivial_sector(symmetry) => op.result = <<op.b>>

\* the trivial sector fused from the left with a sector of spin 1/2 and 1
C16_Witness ==
    /\ symmetry = ProductSymmetry(<<SU2Symmetry(No), SU2Symmetry(No)>>)
    /\ op.name = "fusion_outcomes"
    /\ op.a = <<0, 0>>
    /\ op.b = <<1, 2>>
    /\ op.result = << <<1, 2>> >>

\* a ProductSymmetry all of whose factors are abelian groups or FermionParity
single_fusion(s) == fusion_style(s) = 0

(***************************************************************************)
(* C17: n_symbol(a, b, c) is the fusion multiplicity of c in the fusion of *)
(* a and b: for the abelian symmetries, FermionParity and ProductSymmetry  *)
(* over them it is 1 when c is in fusion_outcomes(a, b) and 0 when c is    *)
(* not a fusion outcome of a and b.                                        *)
(***************************************************************************)
C17_NSymbol ==
    (op.name = "n_symbol" /\ single_fusion(symmetry)) =>
        op.result = IF op.c \in Range(fusion_outcomes(symmetry, op.a, op.b)) THEN 1 ELSE 0

\* the factors' outcome lists of a ProductSymmetry s for the sectors a and b
outcome_lists(s, a, b) ==
    [i \in 1..Len(s.factors) |->
        factor_fusion_outcomes(s.factors[i], factor_part(a, i), factor_part(b, i))]

\* one outcome per factor, concatenated
cartesian(lists) ==
    {Concat([i \in 1..Len(lists) |-> lists[i][k[i]]]) :
        k \in {k \in [1..Len(lists) -> 1..(2 * MaxCharge + 1)] :
                  \A i \in 1..Len(lists) : k[i] <= Len(lists[i])}}

(***************************************************************************)
(* C18: for a ProductSymmetry and valid sectors a, b, fusion_outcomes is   *)
(* exactly the Cartesian product of the factors' outcome lists: each row   *)
(* is the concatenation of one outcome per factor, the number of rows is   *)
(* the product of the factors' outcome counts, every combination appears   *)
(* and no row is repeated.                                                 *)
(***************************************************************************)
C18_CartesianProduct ==
    (symmetry.kind = "ProductSymmetry" /\ op.name = "fusion_outcomes") =>
        LET lists == outcome_lists(symmetry, op.a, op.b)
        IN  /\ Range(op.result) = cartesian(lists)
            /\ Len(op.result) = ProdSeq([i \in 1..Len(lists) |-> Len(lists[i])])
            /\ Cardinality(Range(op.result)) = Len(op.result)

\* two factors with two outcomes each: four rows
C18_Witness ==
    /\ symmetry = ProductSymmetry(<<SU2Symmetry(No), SU2Symmetry(No)>>)
    /\ op.name = "fusion_outcomes"
    /\ op.a = <<1, 2>>
    /\ op.b = <<1, 1>>
    /\ op.result = << <<0, 1>>, <<0, 3>>, <<2, 1>>, <<2, 3>> >>

\* the canonical sectors of y are the duals of those of x, sorted again
resorted_duals(x, y) ==
    LET duals == [i \in 1..num_sectors(x) |->
                     dual_sector(x.symmetry, x._non_dual_sorted_sectors[i])]
        rows == y._non_dual_sorted_sectors
    IN  /\ Len(rows) = Len(duals)
        /\ Range(rows) = Range(duals)
        /\ \A i \in 1..(Len(rows) - 1) : lexsort_less(rows[i], rows[i + 1])

\* dualising the canonical sectors of x and sorting them again gives back
\* the canonical sectors of x, with the multiplicities and the sector
\* permutation x has
closed_under_duality(x) ==
    LET duals == [i \in 1..num_sectors(x) |->
                     dual_sector(x.symmetry, x._non_dual_sorted_sectors[i])]
        at(a) == CHOOSE i \in 1..num_sectors(x) : x._non_dual_sorted_sectors[i] = a
    IN  /\ Range(duals) = Range(x._non_dual_sorted_sectors)
        /\ \A i \in 1..num_sectors(x) :
              x._sorted_multiplicities[at(duals[i])] = x._sorted_multiplicities[i]
        /\ \A i \in 1..num_sectors(x) : x._sector_perm[i] = at(duals[i])

(***************************************************************************)
(* C20 as stated: for every space, flip_is_dual returns a space with the   *)
(* opposite is_dual whose canonical sectors are the re-sorted duals of the *)
(* original's canonical sectors, and the result is equal (==) to neither   *)
(* self nor self.dual.                                                     *)
(***************************************************************************)
C20_FlipEqualsNeither ==
    op.name = "flip_is_dual" =>
        /\ q.is_dual = ~p.is_dual
        /\ resorted_duals(p, q)
        /\ ~eq(q, p)
        /\ ~eq(q, dual(p))

(***************************************************************************)
(* C20, amended: flip_is_dual returns a space with the opposite is_dual    *)
(* whose canonical sectors are the re-sorted duals of the original's       *)
(* canonical sectors; the result is never equal to self; the result of a   *)
(* ProductSpace is never equal to self.dual; the result of a VectorSpace   *)
(* is equal to self.dual exactly when dualising and re-sorting its         *)
(* canonical sectors gives back its canonical sectors, multiplicities and  *)
(* sector permutation.                                                     *)
(***************************************************************************)
C20_FlipIsDual ==
    op.name = "flip_is_dual" =>
        /\ q.is_dual = ~p.is_dual
        /\ resorted_duals(p, q)
        /\ ~eq(q, p)
        /\ p.kind = "ProductSpace" => ~eq(q, dual(p))
        /\ p.kind = "VectorSpace" => (eq(q, dual(p)) <=> closed_under_duality(p))

\* a VectorSpace over Z_3 with the sectors [2], [1]: flipping gives its dual
C20_Witness ==
    /\ op.name = "flip_is_dual"
    /\ p.kind = "VectorSpace"
    /\ p.symmetry = ZNSymmetry(3, No)
    /\ num_sectors(p) = 2
    /\ eq(q, dual(p))

(***************************************************************************)
(* Comparing two symmetries: s is chosen at the start, t is the argument   *)
(* of the call.  The names are None, "a" and "a, a".                       *)
(***************************************************************************)
Names == {No, Some(<<"a">>), Some(<<"a", ", ", "a">>)}

NamedSymmetries ==
    {NoSymmetry, FermionParity}
        \cup {U1Symmetry(n) : n \in Names}
        \cup {SU2Symmetry(n) : n \in Names}
        \cup {ZNSymmetry(N, n) : N \in {2, 3}, n \in Names}

NamedProducts ==
    {ProductSymmetry(<<U1Symmetry(n)>>) : n \in Names}
        \cup {ProductSymmetry(<<U1Symmetry(n), ZNSymmetry(3, m)>>) : n \in Names, m \in Names}
        \cup {ProductSymmetry(<<U1Symmetry(n), U1Symmetry(m)>>) : n \in Names, m \in Names}
        \cup {ProductSymmetry(<<FermionParity, SU2Symmetry(n), ZNSymmetry(2, No)>>) : n \in Names}

EqInit ==
    /\ symmetry \in NamedSymmetries \cup NamedProducts
    /\ V = NoSpace
    /\ W = NoSpace
    /\ p = NoSpace
    /\ q = NoSpace
    /\ op = NoOp
    /\ heap = <<>>

\* s == t
SymmetryEq(t) ==
    /\ op' = [name |-> "eq", other |-> t, result |-> symmetry_eq(symmetry, t)]
    /\ UNCHANGED <<symmetry, heap, V, W, p, q>>

\* s.is_same_symmetry(t)
IsSameSymmetry(t) ==
    /\ op' = [name |-> "is_same_symmetry", other |-> t,
              result |-> is_same_symmetry(symmetry, t)]
    /\ UNCHANGED <<symmetry, heap, V, W, p, q>>

EqNext ==
    \/ op = NoOp /\ \E t \in NamedSymmetries \cup NamedProducts : SymmetryEq(t)
    \/ op = NoOp /\ \E t \in NamedSymmetries \cup NamedProducts : IsSameSymmetry(t)

EqSpec == EqInit /\ [][EqNext]_vars

\* s and t have the same structure and the same descriptive name
same_and_same_name(s, t) ==
    /\ is_same_symmetry(s, t)
    /\ s.descriptive_name = t.descriptive_name

(***************************************************************************)
(* C19 as stated: for any two symmetries s and t, s == t holds if and only *)
(* if s.is_same_symmetry(t) and s.descriptive_name == t.descriptive_name.  *)
(***************************************************************************)
C19_EqIffSameAndName ==
    op.name = "eq" => (op.result <=> same_and_same_name(symmetry, op.other))

(***************************************************************************)
(* C19, amended: s == t implies s.is_same_symmetry(t) and equal            *)
(* descriptive names; when s is not a ProductSymmetry the converse holds   *)
(* as well; when s is a ProductSymmetry, s == t holds if and only if       *)
(* s.is_same_symmetry(t) and every factor of s has the descriptive name of *)
(* the corresponding factor of t.                                          *)
(***************************************************************************)
C19_SymmetryEq ==
    op.name = "eq" =>
        LET s == symmetry
            t == op.other
        IN  /\ op.result => same_and_same_name(s, t)
            /\ s.kind # "ProductSymmetry" => (op.result <=> same_and_same_name(s, t))
            /\ s.kind = "ProductSymmetry" =>
                  (op.result <=>
                      /\ is_same_symmetry(s, t)
                      /\ \A i \in 1..Len(s.factors) :
                            s.factors[i].descriptive_name = t.factors[i].descriptive_name)

\* two products of the same structure, both with the descriptive name
\* "[a, a, a]", whose factors are named differently: not equal
C19_Witness ==
    /\ op.name = "eq"
    /\ symmetry.kind = "ProductSymmetry"
    /\ symmetry.descriptive_name.some
    /\ same_and_same_name(symmetry, op.other)
    /\ ~op.result

MaxRows == 3

AssertionError == [raised |-> "AssertionError"]

RuntimeError == [raised |-> "RuntimeError"]

\* np.all(np.sum(perm[:, None] == np.arange(n)[None, :], axis=0) == 1),
\* with the 1-based entries of the model
is_permutation(perm, n) ==
    \A k \in 1..n : Cardinality({i \in 1..Len(perm) : perm[i] = k}) = 1

\* the assertions of VectorSpace.test_sanity on slices being consecutive
slices_consecutive(sl, d) ==
    Len(sl) > 0 =>
        /\ sl[1][1] = 0
        /\ \A i \in 2..Len(sl) : sl[i][1] = sl[i - 1][2]
        /\ sl[Len(sl)][2] = d

\* test_sanity without the assertion on np.unique
test_sanity_without_unique(x) ==
    IF /\ \A i \in 1..num_sectors(x) :
             is_valid_sector(x.symmetry, x._non_dual_sorted_sectors[i])
       /\ \A i \in 1..num_sectors(x) : x._sorted_multiplicities[i] > 0
       /\ Len(x._sorted_multiplicities) = num_sectors(x)
       /\ Len(x._sorted_slices) = num_sectors(x)
       /\ \A i \in 1..num_sectors(x) :
             x._sorted_slices[i][2] - x._sorted_slices[i][1]
                = sector_dim(x.symmetry, x._non_dual_sorted_sectors[i])
                    * x._sorted_multiplicities[i]
       /\ slices_consecutive(slices(x), dim(x))
       /\ Len(x._sector_perm) = num_sectors(x)
       /\ is_permutation(x._sector_perm, num_sectors(x))
    THEN [raised |-> "none"]
    ELSE AssertionError

\* VectorSpace.test_sanity: every assert passes or AssertionError is raised
test_sanity(x) ==
    IF /\ \A i \in 1..num_sectors(x) :
             is_valid_sector(x.symmetry, x._non_dual_sorted_sectors[i])
       /\ Cardinality(Range(x._non_dual_sorted_sectors)) = num_sectors(x)
       /\ \A i \in 1..num_sectors(x) :
             Len(x._non_dual_sorted_sectors[i]) = sector_ind_len(x.symmetry)
       /\ \A i \in 1..num_sectors(x) : x._sorted_multiplicities[i] > 0
       /\ Len(x._sorted_multiplicities) = num_sectors(x)
       /\ Len(x._sorted_slices) = num_sectors(x)
       /\ \A i \in 1..num_sectors(x) :
             x._sorted_slices[i][2] - x._sorted_slices[i][1]
                = sector_dim(x.symmetry, x._non_dual_sorted_sectors[i])
                    * x._sorted_multiplicities[i]
       /\ slices_consecutive(slices(x), dim(x))
       /\ Len(x._sector_perm) = num_sectors(x)
       /\ is_permutation(x._sector_perm, num_sectors(x))
    THEN [raised |-> "none"]
    ELSE AssertionError

\* the rows of sectors equal to sector (np.where, 1-based)
where(rows, sector) == {i \in 1..Len(rows) : rows[i] = sector}

\* sectors_where: None, the position of the one match (0-based, as in the
\* source), or RuntimeError
sectors_where(x, sector) ==
    IF Cardinality(where(sectors(x), sector)) = 0 THEN [raised |-> "none", result |-> No]
    ELSE IF Cardinality(where(sectors(x), sector)) = 1
    THEN [raised |-> "none",
          result |-> Some((CHOOSE i \in where(sectors(x), sector) : TRUE) - 1)]
    ELSE RuntimeError

\* the non-empty lists of up to MaxRows sectors, rows repeated or not
RowLists(s) == UNION {[1..n -> SectorPool(s)] : n \in 1..MaxRows}

\* V = VectorSpace(symmetry, S, multiplicities=M, _is_dual=d)
Construct(S, M, d) ==
    /\ V = NoSpace
    /\ V' = VectorSpaceInit(symmetry, S, Some(M), FALSE, d, No, No)
    /\ op' = [name |-> "VectorSpace", sectors |-> S, multiplicities |-> M, _is_dual |-> d]
    /\ UNCHANGED <<symmetry, heap, W, p, q>>

\* VectorSpace(symmetry, S[perm], M[perm], _is_dual=d, _sector_perm=perm)
VectorSpace_presorted(s, S, M, d, perm) ==
    VectorSpaceInit(s, take(S, perm), Some(take(M, perm)), FALSE, d, Some(perm), No)

\* W = VectorSpace(symmetry, S[perm], M[perm], _is_dual=d, _sector_perm=perm)
\* with perm = np.lexsort(S.T), right after V = VectorSpace(symmetry, S, M, d)
ConstructPresorted ==
    /\ op.name = "VectorSpace"
    /\ W = NoSpace
    /\ W' = VectorSpace_presorted(symmetry, op.sectors, op.multiplicities, op._is_dual,
                                  lexsort(op.sectors))
    /\ op' = [op EXCEPT !.name = "VectorSpace_presorted"]
    /\ UNCHANGED <<symmetry, heap, V, p, q>>

\* V.test_sanity()
TestSanity ==
    /\ V # NoSpace
    /\ op' = [name |-> "test_sanity", result |-> test_sanity(V)]
    /\ UNCHANGED <<symmetry, heap, V, W, p, q>>

\* V.sectors_where(sector)
SectorsWhere(sector) ==
    /\ V # NoSpace
    /\ op' = [name |-> "sectors_where", sector |-> sector,
              result |-> sectors_where(V, sector)]
    /\ UNCHANGED <<symmetry, heap, V, W, p, q>>

SanityNext ==
    \/ \E S \in RowLists(symmetry), d \in BOOLEAN :
         \E M \in [1..Len(S) -> 1..MaxMult] : Construct(S, M, d)
    \/ ConstructPresorted
    \/ TestSanity
    \/ \E sector \in SectorPool(symmetry) \cup {trivial_sector(symmetry)} :
         SectorsWhere(sector)

SanitySpec == Init /\ [][SanityNext]_vars

(***************************************************************************)
(* C22 as stated: constructing a VectorSpace from a sector list that       *)
(* contains a duplicate row is rejected with a validation error at         *)
(* construction time: no space is produced and the duplicates are neither  *)
(* merged nor stored.                                                      *)
(***************************************************************************)
C22_DuplicatesRejected ==
    op.name = "VectorSpace" /\ ~pairwise_distinct(op.sectors) => V = NoSpace

(***************************************************************************)
(* C22, amended: the constructor raises nothing on a duplicate row.  The   *)
(* space is built and stores every row it was given, duplicates included   *)
(* and unmerged, each with its own multiplicity, and dim counts them all.  *)
(* The duplicate shows only later: test_sanity raises an assertion error   *)
(* exactly when the stored rows are not pairwise distinct, and             *)
(* sectors_where(sector) raises RuntimeError exactly when sector is stored *)
(* more than once.                                                         *)
(***************************************************************************)
C22_DuplicatesStored ==
    /\ op.name = "VectorSpace" =>
          /\ V # NoSpace
          /\ num_sectors(V) = Len(op.sectors)
          /\ take(V._non_dual_sorted_sectors, V._inverse_sector_perm) = op.sectors
          /\ multiplicities(V) = op.multiplicities
          /\ dim(V) = SumSeq([i \in 1..Len(op.sectors) |->
                         op.multiplicities[i] * sector_dim(symmetry, op.sectors[i])])
    /\ op.name = "test_sanity" =>
          (op.result = AssertionError <=> ~pairwise_distinct(V._non_dual_sorted_sectors))
    /\ op.name = "sectors_where" =>
          (op.result = RuntimeError
              <=> Cardinality(where(sectors(V), op.sector)) > 1)

\* the rows [1], [2], [1] over Z_3: stored as [1], [1], [2], and found twice
C22_Witness ==
    /\ op.name = "sectors_where"
    /\ op.sector = <<1>>
    /\ op.result = RuntimeError
    /\ V._non_dual_sorted_sectors = << <<1>>, <<1>>, <<2>> >>
    /\ V._sector_perm = <<1, 3, 2>>
    /\ test_sanity(V) = AssertionError

(***************************************************************************)
(* C23: for every ProductSpace p, p.as_VectorSpace() is a plain            *)
(* VectorSpace with the same symmetry, is_real, is_dual, canonical         *)
(* sectors, multiplicities, slices and sector permutation as p, so that    *)
(* is_equal_or_dual holds between them, while p == p.as_VectorSpace() and  *)
(* p.as_VectorSpace() == p are both false.                                 *)
(***************************************************************************)
C23_AsVectorSpace ==
    op.name = "as_VectorSpace" /\ p.kind = "ProductSpace" =>
        /\ q.kind = "VectorSpace"
        /\ q.spaces = <<>>
        /\ q.symmetry = p.symmetry
        /\ q.is_real = p.is_real
        /\ q.is_dual = p.is_dual
        /\ q._non_dual_sorted_sectors = p._non_dual_sorted_sectors
        /\ q._sorted_multiplicities = p._sorted_multiplicities
        /\ q._sorted_slices = p._sorted_slices
        /\ q._sector_perm = p._sector_perm
        /\ q._inverse_sector_perm = p._inverse_sector_perm
        /\ is_equal_or_dual(q, p)
        /\ is_equal_or_dual(p, q)
        /\ ~eq(p, q)
        /\ ~eq(q, p)

\* a flipped product of two factors, its sector permutation not the
\* identity, viewed as a VectorSpace
C23_Witness ==
    /\ op.name = "as_VectorSpace"
    /\ p.kind = "ProductSpace"
    /\ Len(p.spaces) = 2
    /\ p._sector_perm # arange(num_sectors(p))
    /\ q.kind = "VectorSpace"
    /\ is_equal_or_dual(q, p)

(***************************************************************************)
(* C24: the optimized constructor entry point is equivalent to the general *)
(* one: for distinct sectors S, multiplicities M and perm the sort         *)
(* permutation of S, VectorSpace(S, M) and                                 *)
(* VectorSpace(S[perm], M[perm], _sector_perm=perm) have identical         *)
(* canonical sectors, multiplicities, slices, permutation and public       *)
(* views, and compare equal.                                               *)
(***************************************************************************)
C24_PresortedEntryPoint ==
    op.name = "VectorSpace_presorted" /\ pairwise_distinct(op.sectors) =>
        /\ W._non_dual_sorted_sectors = V._non_dual_sorted_sectors
        /\ W._sorted_multiplicities = V._sorted_multiplicities
        /\ W._sorted_slices = V._sorted_slices
        /\ W._sector_perm = V._sector_perm
        /\ W._inverse_sector_perm = V._inverse_sector_perm
        /\ W.is_dual = V.is_dual
        /\ sectors(W) = sectors(V)
        /\ multiplicities(W) = multiplicities(V)
        /\ slices(W) = slices(V)
        /\ eq(V, W)
        /\ eq(W, V)

\* the rows [2], [1] over Z_3 with the multiplicities 1, 2: the permutation
\* is not the identity and the two slices have different widths
C24_Witness ==
    /\ op.name = "VectorSpace_presorted"
    /\ op.sectors = << <<2>>, <<1>> >>
    /\ op.multiplicities = <<1, 2>>
    /\ V._sector_perm = <<2, 1>>
    /\ W._sorted_slices = << <<1, 3>>, <<0, 1>> >>
    /\ eq(V, W)

\* the canonical sectors and multiplicities x would get from _fuse_spaces on
\* its current factors under its current is_dual are the ones it stores
refused(x) ==
    _fuse_spaces(x.symmetry, x.spaces, x.is_dual)
        = <<x._non_dual_sorted_sectors, x._sorted_multiplicities>>

(***************************************************************************)
(* C25: for every ProductSpace reachable from the default fusing           *)
(* constructor by any sequence of dual and flip_is_dual, fusing its        *)
(* current factors again, left to right under its current is_dual (the     *)
(* duals of the factors when is_dual is true, accumulating m_a * m_b * N   *)
(* per outcome), reproduces exactly its stored canonical sectors and       *)
(* multiplicities.                                                         *)
(***************************************************************************)
C25_RefusingReproduces ==
    \A x \in Spaces : x.kind = "ProductSpace" => refused(x)

\* a flipped bra product of two factors with two sectors each, where the
\* fusion accumulated a multiplicity above 1 and flipping reordered the rows
C25_Witness ==
    /\ op.name = "flip_is_dual"
    /\ q.kind = "ProductSpace"
    /\ Len(q.spaces) = 2
    /\ q.is_dual
    /\ num_sectors(q.spaces[1]) = 2
    /\ num_sectors(q.spaces[2]) = 2
    /\ \E i \in 1..num_sectors(q) : q._sorted_multiplicities[i] > 2
    /\ q._sorted_multiplicities # p._sorted_multiplicities
    /\ refused(q)

(***************************************************************************)
(* The session over Z_3, U(1) x Z_3 and SU(2), whose sectors have a        *)
(* dimension above 1: the VectorSpaces V and W, their product, and dual,   *)
(* flip_is_dual and as_VectorSpace on V and on the latest result.          *)
(***************************************************************************)
TilingNext ==
    \/ \E r \in {"V", "W"}, S \in SectorLists(symmetry), d \in BOOLEAN :
          \E M \in {No} \cup {Some(m) : m \in [1..Len(S) -> 1..MaxMult]} :
              NewVectorSpace(r, S, M, d)
    \/ \E d \in OptBool : NewProductSpace(d)
    \/ \E src \in {"V", "q"} : Dual(src)
    \/ \E src \in {"V", "q"} : FlipIsDual(src)
    \/ \E src \in {"V", "q"} : AsVectorSpace(src)

TilingSpec == IndexInit /\ [][TilingNext]_vars

\* slices[n].end - slices[n].start for every public sector n
widths(x) == [n \in 1..num_sectors(x) |-> slices(x)[n][2] - slices(x)[n][1]]

duals_of(spaces) == [i \in 1..Len(spaces) |-> dual(spaces[i])]

\* p or q = ProductSpace(leaves, _is_dual=d), or the same of the dual leaves
Product(r, of_duals, d) ==
    /\ p' = IF r = "p"
            THEN ProductSpaceInit(IF of_duals THEN duals_of(leaves) ELSE leaves,
                                  d, No, No, No, No)
            ELSE p
    /\ q' = IF r = "q"
            THEN ProductSpaceInit(IF of_duals THEN duals_of(leaves) ELSE leaves,
                                  d, No, No, No, No)
            ELSE q
    /\ op' = [name |-> "ProductSpace", target |-> r]
    /\ UNCHANGED <<symmetry, heap, V, W>>

\* p = p.dual
DualP ==
    /\ p' = dual(p)
    /\ op' = [name |-> "dual", target |-> "p"]
    /\ UNCHANGED <<symmetry, heap, V, W, q>>

\* p = p.flip_is_dual()
FlipP ==
    /\ p' = flip_is_dual(p)
    /\ op' = [name |-> "flip_is_dual", target |-> "p"]
    /\ UNCHANGED <<symmetry, heap, V, W, q>>

\* p.can_contract_with(q)
CanContractWith ==
    /\ op' = [name |-> "can_contract_with", target |-> "p",
              result |-> can_contract_with(p, q)]
    /\ UNCHANGED <<symmetry, heap, V, W, p, q>>

ContractNext ==
    \/ p = NoSpace /\ \E r \in {"V", "W"}, S \in SectorLists(symmetry), d \in BOOLEAN :
          \E M \in {No} \cup {Some(m) : m \in [1..Len(S) -> 1..MaxMult]} :
              NewVectorSpace(r, S, M, d)
    \/ V # NoSpace /\ p = NoSpace /\ \E of_duals \in BOOLEAN, d \in OptBool :
          Product("p", of_duals, d)
    \/ p # NoSpace /\ q = NoSpace /\ DualP
    \/ p # NoSpace /\ q = NoSpace /\ FlipP
    \/ p # NoSpace /\ q = NoSpace /\ \E of_duals \in BOOLEAN, d \in OptBool :
          Product("q", of_duals, d)
    \/ q # NoSpace /\ op.name # "can_contract_with" /\ CanContractWith

ContractSpec == Init /\ [][ContractNext]_vars

MaxLeaves == 1

MaxHeap == 6

\* the ids of the factors of the product o
items_of(h, o) == h[h[o].spaces].items

\* the space with id o as a value, its factors resolved recursively
RECURSIVE deref(_, _)
deref(h, o) ==
    [h[o] EXCEPT !.spaces = IF h[o].kind = "ProductSpace"
                            THEN [i \in 1..Len(items_of(h, o)) |-> deref(h, items_of(h, o)[i])]
                            ELSE <<>>]

\* a constructor call: a new object with the attributes of the value x, its
\* attribute spaces referring to the list with id spaces
new_space(h, x, spaces) == [heap |-> Append(h, [x EXCEPT !.spaces = spaces]), res |-> Len(h) + 1]

\* a list built from the ids items
new_list(h, items) == [heap |-> Append(h, [kind |-> "list", items |-> items]), res |-> Len(h) + 1]

\* res = self in place of res = copy.copy(self): no new object
copy_is_self(h, o) == [heap |-> h, res |-> o]

\* copy.copy(self): a new object with the same attribute values, references
\* included
copy_copy(h, o) == [heap |-> Append(h, h[o]), res |-> Len(h) + 1]

\* res.is_dual = val after r returned res
set_is_dual(r, val) == [r EXCEPT !.heap[r.res].is_dual = val]

\* res.spaces = the list l.res, in the heap l.heap, for the object with id res
set_spaces(l, res) == [heap |-> [l.heap EXCEPT ![res].spaces = l.res], res |-> res]

\* the id put in front of the ids r returned
prepend_res(id, r) == [heap |-> r.heap, res |-> <<id>> \o r.res]

RECURSIVE heap_dual(_, _)
RECURSIVE heap_duals(_, _)
\* [s.dual for s in items], evaluated left to right: [heap, res |-> the ids]
heap_duals(h, items) ==
    IF items = <<>> THEN [heap |-> h, res |-> <<>>]
    ELSE prepend_res(heap_dual(h, Head(items)).res,
                     heap_duals(heap_dual(h, Head(items)).heap, Tail(items)))

\* the ProductSpace part of dual, after `res.is_dual = not self.is_dual`
\* gave r: res.spaces = [s.dual for s in self.spaces]
heap_dual_spaces(r, o) ==
    set_spaces(new_list(heap_duals(r.heap, items_of(r.heap, o)).heap,
                        heap_duals(r.heap, items_of(r.heap, o)).res),
               r.res)

\* VectorSpace.dual and ProductSpace.dual on the object o
heap_dual(h, o) ==
    IF h[o].kind = "ProductSpace"
    THEN heap_dual_spaces(set_is_dual(copy_copy(h, o), ~h[o].is_dual), o)
    ELSE set_is_dual(copy_copy(h, o), ~h[o].is_dual)

\* VectorSpace.flip_is_dual and ProductSpace.flip_is_dual on the object o:
\* a constructor call; the product passes spaces=self.spaces, the same list
heap_flip_is_dual(h, o) == new_space(h, flip_is_dual(deref(h, o)), h[o].spaces)

\* VectorSpace.as_VectorSpace (return self) and ProductSpace.as_VectorSpace
heap_as_VectorSpace(h, o) ==
    IF h[o].kind = "ProductSpace" THEN new_space(h, as_VectorSpace(deref(h, o)), 0)
    ELSE [heap |-> h, res |-> o]

\* the ids of the spaces in the heap
space_ids == {i \in 1..Len(heap) : heap[i].kind # "list"}

HeapInit ==
    /\ symmetry = ZNSymmetry(3, No)
    /\ V = NoSpace
    /\ W = NoSpace
    /\ p = NoSpace
    /\ q = NoSpace
    /\ op = NoOp
    /\ heap = <<>>

\* VectorSpace(symmetry, S, _is_dual=d)
HeapVectorSpace(S, d) ==
    /\ heap' = new_space(heap, VectorSpaceInit(symmetry, S, No, FALSE, d, No, No), 0).heap
    /\ op' = [name |-> "VectorSpace", target |-> 0, result |-> Len(heap) + 1]
    /\ UNCHANGED <<symmetry, V, W, p, q>>

\* the end of ProductSpace(spaces) for the list l.res just built
heap_ProductSpace(l) ==
    new_space(l.heap,
              ProductSpaceInit([i \in 1..Len(l.heap[l.res].items) |->
                                   deref(l.heap, l.heap[l.res].items[i])],
                               No, No, No, No, No),
              l.res)

\* ProductSpace([...]) of the spaces with the ids items
HeapProductSpace(items) ==
    /\ heap' = heap_ProductSpace(new_list(heap, items)).heap
    /\ op' = [name |-> "ProductSpace", target |-> 0, result |-> Len(heap) + 2]
    /\ UNCHANGED <<symmetry, V, W, p, q>>

\* o.dual
HeapDual(o) ==
    /\ heap' = heap_dual(heap, o).heap
    /\ op' = [name |-> "dual", target |-> o, result |-> heap_dual(heap, o).res]
    /\ UNCHANGED <<symmetry, V, W, p, q>>

\* o.flip_is_dual()
HeapFlipIsDual(o) ==
    /\ heap' = heap_flip_is_dual(heap, o).heap
    /\ op' = [name |-> "flip_is_dual", target |-> o, result |-> heap_flip_is_dual(heap, o).res]
    /\ UNCHANGED <<symmetry, V, W, p, q>>

\* o.as_VectorSpace()
HeapAsVectorSpace(o) ==
    /\ heap' = heap_as_VectorSpace(heap, o).heap
    /\ op' = [name |-> "as_VectorSpace", target |-> o,
              result |-> heap_as_VectorSpace(heap, o).res]
    /\ UNCHANGED <<symmetry, V, W, p, q>>

HeapNext ==
    \/ Len(heap) < MaxLeaves /\ \E S \in SectorLists(symmetry), d \in BOOLEAN :
          HeapVectorSpace(S, d)
    \/ Len(heap) \in 1..(MaxHeap - 1) /\ \E o1 \in space_ids : \E o2 \in space_ids \cup {0} :
          HeapProductSpace(IF o2 = 0 THEN <<o1>> ELSE <<o1, o2>>)
    \/ Len(heap) < MaxHeap /\ \E o \in space_ids : HeapDual(o)
    \/ Len(heap) < MaxHeap /\ \E o \in space_ids : HeapFlipIsDual(o)
    \/ Len(heap) < MaxHeap /\ \E o \in space_ids : HeapAsVectorSpace(o)

HeapSpec == HeapInit /\ [][HeapNext]_vars

\* the ids of o and of every object reachable from it: its list of factors,
\* the factors, and theirs
RECURSIVE reachable(_, _)
reachable(h, o) ==
    IF h[o].kind = "ProductSpace"
    THEN {o, h[o].spaces} \cup UNION {reachable(h, items_of(h, o)[i]) : i \in 1..Len(items_of(h, o))}
    ELSE {o}

(***************************************************************************)
(* C28: dual, flip_is_dual and as_VectorSpace never modify their receiver: *)
(* after any of them is called on a VectorSpace or ProductSpace, the       *)
(* receiver's is_dual, canonical sectors, multiplicities, slices, sector   *)
(* permutation and, for a ProductSpace, its factor list and every factor's *)
(* is_dual are unchanged.                                                  *)
(***************************************************************************)
C28_ReceiverUnchanged ==
    [][op'.name \in {"dual", "flip_is_dual", "as_VectorSpace"} =>
          /\ \A i \in reachable(heap, op'.target) : heap'[i] = heap[i]
          /\ deref(heap', op'.target) = deref(heap, op'.target)]_vars

\* dual called on a nested product: the result is a new object with the
\* opposite is_dual and a new list of new factors, the receiver as it was
C28_Witness ==
    /\ op.name = "dual"
    /\ heap[op.target].kind = "ProductSpace"
    /\ \E i \in 1..Len(items_of(heap, op.target)) :
          heap[items_of(heap, op.target)[i]].kind = "ProductSpace"
    /\ op.result # op.target
    /\ heap[op.result].is_dual # heap[op.target].is_dual
    /\ heap[op.result].spaces # heap[op.target].spaces
    /\ \A i \in 1..Len(items_of(heap, op.target)) :
          heap[items_of(heap, op.result)[i]].is_dual
              # heap[items_of(heap, op.target)[i]].is_dual

(***************************************************************************)
(* C29: fusion preserves the total dimension: for every ProductSpace built *)
(* by the default fusion over factors of one symmetry with single-outcome  *)
(* fusion, dim of the ProductSpace is the product of the dims of its       *)
(* factors, and every fused multiplicity is a positive integer.            *)
(***************************************************************************)
C29_FusionPreservesDim ==
    \A x \in Spaces :
        x.kind = "ProductSpace" /\ fusion_style_single(x.symmetry) =>
            /\ dim(x) = ProdSeq([i \in 1..Len(x.spaces) |-> dim(x.spaces[i])])
            /\ \A i \in 1..num_sectors(x) : x._sorted_multiplicities[i] \in Nat \ {0}

\* two factors with two sectors each and multiplicities above 1, where two
\* pairs of sectors fuse to the same outcome
C29_Witness ==
    /\ op.name = "ProductSpace"
    /\ W # NoSpace
    /\ num_sectors(V) = 2
    /\ num_sectors(W) = 2
    /\ dim(V) = 4
    /\ q.spaces = <<V, W>>
    /\ num_sectors(q) = 3
    /\ dim(q) = 8

\* VectorSpace.is_trivial: one sector, the trivial one, with multiplicity 1;
\* ProductSpace.is_trivial: all(s.is_trivial for s in self.spaces)
RECURSIVE is_trivial(_)
is_trivial(x) ==
    IF x.kind = "ProductSpace"
    THEN \A i \in 1..Len(x.spaces) : is_trivial(x.spaces[i])
    ELSE /\ num_sectors(x) = 1
         /\ x._sorted_multiplicities[1] = 1
         /\ x._non_dual_sorted_sectors[1] = trivial_sector(x.symmetry)

(***************************************************************************)
(* C30: is_trivial of a ProductSpace agrees with is_trivial of the same    *)
(* space viewed as a plain VectorSpace: for every ProductSpace p,          *)
(* p.is_trivial is p.as_VectorSpace().is_trivial, that is, it is true      *)
(* exactly when the fused space has one sector equal to the trivial sector *)
(* with multiplicity 1.                                                    *)
(***************************************************************************)
C30_IsTrivialAgrees ==
    \A x \in Spaces :
        x.kind = "ProductSpace" => (is_trivial(x) <=> is_trivial(as_VectorSpace(x)))

====
